---- MODULE Spec2Model ----
(***************************************************************************)
(* State-machine model of the udpjsonmeta element: the multicast listener  *)
(* thread, the generic envelope extractor, the correlation cache with its  *)
(* reader/writer lock, the per-buffer read path and the start/stop         *)
(* lifecycle.                                                              *)
(***************************************************************************)
EXTENDS Integers, Sequences, FiniteSets, TLC

(***************************************************************************)
(* Bounds of the model.                                                    *)
(***************************************************************************)
\* largest max-cache-size the element is configured with
MaxCapacity == 2
\* largest max-cache-size in a behaviour with readers or restarts
MaxFewCapacity == 1
\* largest cache-ttl-ms the element is configured with
MaxTtl == 1
\* the monotonic clock stops advancing here (microseconds)
MaxClock == 2000
\* one step of the monotonic clock (microseconds)
TickUs == 500
\* udpjson_cache_update calls in a behaviour of the write path
MaxUpdates == 3
\* udpjson_cache_update calls in a behaviour with readers or restarts
MaxFewUpdates == 2
\* start() calls in a behaviour
MaxStarts == 2

(***************************************************************************)
(* Integer widths.  guint is 32 bits and guint64 is 64 bits in the code;   *)
(* the model keeps the two widths apart but scales them down (to 2^17 and  *)
(* 2^20): only the wrap-around at the modulus, the order of the widths and *)
(* GUINT64_MOD \div 1000 > MaxTtl matter.  guint16 and guint8 are exact.   *)
(***************************************************************************)
GUINT_MOD == 131072
GUINT16_MOD == 65536
GUINT8_MOD == 256
GUINT64_MOD == 1048576
UNTRACKED_OBJECT_ID == GUINT64_MOD - 1

\* a - b in guint64 arithmetic
SubU64(a, b) == (a - b) % GUINT64_MOD

\* the cast (guint)x
ToGuint(x) == x % GUINT_MOD

\* the descriptor socket() returns on success
SOCK_FD == 3

(***************************************************************************)
(* JSON nodes as json-glib presents them: a node has a type, and a scalar  *)
(* payload (i for integers, s for the characters of a string).             *)
(***************************************************************************)
StrNode(chars) == [t |-> "string", i |-> 0, s |-> chars]
IntNode(n) == [t |-> "int", i |-> n, s |-> <<>>]
NullNode == [t |-> "null", i |-> 0, s |-> <<>>]
\* the JSON double n.0 (the model's doubles have no fractional part)
DoubleNode(n) == [t |-> "double", i |-> n, s |-> <<>>]
BoolNode(b) == [t |-> "bool", i |-> IF b THEN 1 ELSE 0, s |-> <<>>]
\* an object or array node, with its serialisation
ObjNode(chars) == [t |-> "object", i |-> 0, s |-> chars]
ArrNode(chars) == [t |-> "array", i |-> 0, s |-> chars]

\* element defaults of the three field names
DEFAULT_JSON_KEY == "value"
DEFAULT_OBJECT_ID_KEY == "object_id"
DEFAULT_SOURCE_ID_KEY == "source_id"

\* A datagram: whether it parses as JSON, what its root is, and the
\* members of the root object.
Dgram(ok, root, m) == [json |-> ok, root |-> root, m |-> m]

NoMembers == [n \in {} |-> NullNode]

Obj2(k1, v1, k2, v2) == [n \in {k1, k2} |-> IF n = k1 THEN v1 ELSE v2]

Obj3(k1, v1, k2, v2, k3, v3) ==
    [n \in {k1, k2, k3} |-> IF n = k1 THEN v1 ELSE IF n = k2 THEN v2 ELSE v3]

\* a well-formed generic-schema datagram
Envelope(sid, oid, v) ==
    Dgram(TRUE, "object",
          Obj3("source_id", IntNode(sid), "object_id", IntNode(oid),
               "value", StrNode(v)))

\* the datagrams the network delivers
ValidDgrams ==
    { Envelope(0, 1, <<"a">>), Envelope(0, 1, <<"b">>), Envelope(0, 2, <<"a">>),
      Envelope(1, 1, <<"a">>),
      Envelope(GUINT_MOD + 1, 1, <<"a">>),
      Dgram(TRUE, "object",
            Obj2("object_id", IntNode(1), "value", StrNode(<<"b">>))) }

MalformedDgrams ==
    { Dgram(FALSE, "none", NoMembers),
      Dgram(TRUE, "array", NoMembers),
      Dgram(TRUE, "object",
            Obj2("source_id", IntNode(0), "value", StrNode(<<"a">>))),
      Dgram(TRUE, "object",
            Obj2("source_id", IntNode(0), "object_id", IntNode(1))) }

\* the field names of the structured protocol's header and payload blocks
\* (the two non-ASCII literals of cuav_parser_parse)
CUAV_COMMON_KEY == "common_content"
CUAV_SPECIFIC_KEY == "specific_info"

\* a structured-protocol datagram: a header block and a payload block
CuavDgrams ==
    { Dgram(TRUE, "object",
            Obj2(CUAV_COMMON_KEY, ObjNode(<<"{", "}">>),
                 CUAV_SPECIFIC_KEY, ObjNode(<<"{", "}">>))) }

\* datagrams whose object-id member is present but is no number: a
\* non-numeric string, a boolean, null
UncoercibleIdDgrams ==
    { Dgram(TRUE, "object",
            Obj2("object_id", StrNode(<<"a", "b", "c">>), "value", StrNode(<<"x">>))),
      Dgram(TRUE, "object",
            Obj2("object_id", BoolNode(TRUE), "value", StrNode(<<"x">>))),
      Dgram(TRUE, "object",
            Obj2("object_id", NullNode, "value", StrNode(<<"x">>))) }

\* valid datagrams whose source-id member is a decimal string, a double,
\* or no number at all: a boolean, null, a non-numeric string
SourceIdDgrams ==
    { Dgram(TRUE, "object",
            Obj3("source_id", node, "object_id", IntNode(1), "value", StrNode(<<"a">>))) :
        node \in {StrNode(<<"1">>), DoubleNode(1), BoolNode(TRUE), NullNode,
                  StrNode(<<"a", "b", "c">>)} }

Datagrams ==
    ValidDgrams \cup MalformedDgrams \cup CuavDgrams \cup UncoercibleIdDgrams
      \cup SourceIdDgrams

NoDgram == Dgram(FALSE, "empty", NoMembers)

(***************************************************************************)
(* Conversions of the generic envelope extractor.                          *)
(***************************************************************************)
Digits == <<"0", "1", "2", "3", "4", "5", "6", "7", "8", "9">>

IsDigit(c) == \E k \in 1..10 : Digits[k] = c

DigitVal(c) == (CHOOSE k \in 1..10 : Digits[k] = c) - 1

\* g_ascii_strtoull(str, NULL, 10): leading spaces and one sign are skipped,
\* then the longest prefix of decimal digits is read; 0 when there is no
\* digit, the largest guint64 on overflow, negated in guint64 after a "-".
RECURSIVE StrToULLFrom(_, _)
StrToULLFrom(chars, acc) ==
    IF chars = <<>> \/ ~IsDigit(Head(chars)) THEN acc
    ELSE IF acc * 10 + DigitVal(Head(chars)) >= GUINT64_MOD THEN GUINT64_MOD - 1
    ELSE StrToULLFrom(Tail(chars), acc * 10 + DigitVal(Head(chars)))

RECURSIVE SkipSpaces(_)
SkipSpaces(chars) ==
    IF chars # <<>> /\ Head(chars) = " " THEN SkipSpaces(Tail(chars)) ELSE chars

g_ascii_strtoull(chars) ==
    LET s == SkipSpaces(chars)
        signed == s # <<>> /\ Head(s) \in {"+", "-"}
        v == StrToULLFrom(IF signed THEN Tail(s) ELSE s, 0)
    IN  IF signed /\ Head(s) = "-" THEN (GUINT64_MOD - v) % GUINT64_MOD ELSE v

\* printf("%d") of a non-negative integer
RECURSIVE NatToChars(_)
NatToChars(n) ==
    IF n < 10 THEN <<Digits[n + 1]>>
    ELSE NatToChars(n \div 10) \o <<Digits[(n % 10) + 1]>>

IntToChars(n) == IF n < 0 THEN <<"-">> \o NatToChars(0 - n) ELSE NatToChars(n)

\* udpjson_parse_uint64: [ok, out]
udpjson_parse_uint64(node) ==
    IF node.t = "string" THEN [ok |-> TRUE, out |-> g_ascii_strtoull(node.s)]
    ELSE IF node.t = "int" THEN [ok |-> TRUE, out |-> node.i % GUINT64_MOD]
    ELSE IF node.t = "double" THEN [ok |-> TRUE, out |-> node.i % GUINT64_MOD]
    ELSE [ok |-> FALSE, out |-> 0]

\* udpjson_node_to_string: the characters of the value string
udpjson_node_to_string(node) ==
    IF node.t \in {"object", "array"} THEN node.s
    ELSE IF node.t = "null" THEN <<"n", "u", "l", "l">>
    ELSE IF node.t = "string" THEN node.s
    ELSE IF node.t = "int" THEN IntToChars(node.i)
    ELSE IF node.t = "double" THEN
        IntToChars(node.i) \o <<".", "0", "0", "0", "0", "0", "0">>
    ELSE IF node.t = "bool" THEN
        (IF node.i # 0 THEN <<"t", "r", "u", "e">> ELSE <<"f", "a", "l", "s", "e">>)
    ELSE node.s

NoUpdate == [write |-> FALSE, source_id |-> 0, object_id |-> 0, value |-> <<>>]

\* mutant: a missing object-id field is read as object id 0
udpjson_parse_and_cache_NoIdCheck(d, value_key, oid_key, sid_key) ==
    IF ~d.json \/ d.root # "object" \/ ~(value_key \in DOMAIN d.m) THEN NoUpdate
    ELSE [write |-> TRUE,
          source_id |-> 0,
          object_id |-> IF oid_key \in DOMAIN d.m
                        THEN udpjson_parse_uint64(d.m[oid_key]).out ELSE 0,
          value |-> udpjson_node_to_string(d.m[value_key])]

\* mutant: a datagram without a usable source id is discarded
udpjson_parse_and_cache_NeedsSource(d, value_key, oid_key, sid_key) ==
    IF ~d.json \/ d.root # "object" THEN NoUpdate
    ELSE IF ~(oid_key \in DOMAIN d.m) \/ ~(value_key \in DOMAIN d.m) THEN NoUpdate
    ELSE IF ~(sid_key \in DOMAIN d.m) \/ ~udpjson_parse_uint64(d.m[sid_key]).ok
    THEN NoUpdate
    ELSE IF ~udpjson_parse_uint64(d.m[oid_key]).ok THEN NoUpdate
    ELSE [write |-> TRUE,
          source_id |-> ToGuint(udpjson_parse_uint64(d.m[sid_key]).out),
          object_id |-> udpjson_parse_uint64(d.m[oid_key]).out,
          value |-> udpjson_node_to_string(d.m[value_key])]

\* udpjson_parse_and_cache up to its call of udpjson_cache_update: the
\* update it asks for, or NoUpdate when the datagram is discarded.
udpjson_parse_and_cache(d, value_key, oid_key, sid_key) ==
    IF ~d.json THEN NoUpdate
    ELSE IF d.root # "object" THEN NoUpdate
    ELSE IF ~(oid_key \in DOMAIN d.m) \/ ~(value_key \in DOMAIN d.m) THEN NoUpdate
    ELSE LET oid == udpjson_parse_uint64(d.m[oid_key])
             sid == IF sid_key \in DOMAIN d.m
                    THEN udpjson_parse_uint64(d.m[sid_key])
                    ELSE [ok |-> FALSE, out |-> 0]
             source_id64 == IF sid.ok THEN sid.out ELSE 0
         IN  IF ~oid.ok THEN NoUpdate
             ELSE [write |-> TRUE,
                   source_id |-> ToGuint(source_id64),
                   object_id |-> oid.out,
                   value |-> udpjson_node_to_string(d.m[value_key])]

(***************************************************************************)
(* The correlation cache: a map from <<source_id, object_id>> to           *)
(* [value, recv_ts_us].                                                    *)
(***************************************************************************)
EmptyCache == [k \in {} |-> [value |-> <<>>, recv_ts_us |-> 0]]

g_hash_table_size(c) == Cardinality(DOMAIN c)

\* mutant: an existing key keeps its old entry
g_hash_table_replace_KeepOld(c, key, val) ==
    [k \in (DOMAIN c) \cup {key} |-> IF k \in DOMAIN c THEN c[k] ELSE val]

\* mutant: an existing key gets the new value and keeps its old timestamp
g_hash_table_replace_KeepStamp(c, key, val) ==
    [k \in (DOMAIN c) \cup {key} |->
        IF k # key THEN c[k]
        ELSE IF k \in DOMAIN c THEN [val EXCEPT !.recv_ts_us = c[k].recv_ts_us]
        ELSE val]

g_hash_table_replace(c, key, val) ==
    [k \in (DOMAIN c) \cup {key} |-> IF k = key THEN val ELSE c[k]]

\* mutant: the table is cleared only once it already exceeds the capacity
CacheUpdateClears_Late(c, cap) == cap > 0 /\ Cardinality(DOMAIN c) > cap

\* mutant: capacity 0 is a limit like any other
CacheUpdateClears_ZeroLimit(c, cap) == g_hash_table_size(c) >= cap

\* whether udpjson_cache_update clears the table before it inserts
CacheUpdateClears(c, cap) == cap > 0 /\ g_hash_table_size(c) >= cap

\* mutant: on overflow one entry is evicted instead of all
CacheUpdateBody_EvictOne(c, cap, source_id, object_id, value, now_us) ==
    LET victim == CHOOSE k \in DOMAIN c : TRUE
        kept == IF CacheUpdateClears(c, cap)
                THEN [k \in (DOMAIN c) \ {victim} |-> c[k]]
                ELSE c
    IN  g_hash_table_replace(kept, <<source_id, object_id>>,
                             [value |-> value, recv_ts_us |-> now_us])

\* the body of udpjson_cache_update between writer_lock and writer_unlock
CacheUpdateBody(c, cap, source_id, object_id, value, now_us) ==
    LET kept == IF CacheUpdateClears(c, cap) THEN EmptyCache ELSE c
    IN  g_hash_table_replace(kept, <<source_id, object_id>>,
                             [value |-> value, recv_ts_us |-> now_us])

NoRes == [outcome |-> "none", key |-> <<0, 0>>, value |-> <<>>, recv_ts_us |-> 0]

\* mutant: the age is compared in microseconds
IsStale_Micro(ttl, now_us, recv_ts_us) ==
    ttl > 0 /\ SubU64(now_us, recv_ts_us) > ttl * 1000

\* mutant: the TTL is compared even when it is 0
IsStale_ZeroTtl(ttl, now_us, recv_ts_us) ==
    (SubU64(now_us, recv_ts_us) \div 1000) > ttl

\* the staleness test of the read path: the age in whole milliseconds
\* against cache_ttl_ms
IsStale(ttl, now_us, recv_ts_us) ==
    ttl > 0 /\ (SubU64(now_us, recv_ts_us) \div 1000) > ttl

\* mutant: the entry of another source with the same object id is found
LookupObj_AnySource(c, ttl, now_us, source_id, object_id) ==
    LET key == <<source_id, object_id>>
        found == {k \in DOMAIN c : k[2] = object_id}
        res(o, v, ts) == [outcome |-> o, key |-> key, value |-> v, recv_ts_us |-> ts]
    IN  IF object_id = UNTRACKED_OBJECT_ID THEN res("untracked", <<>>, 0)
        ELSE IF found = {} THEN res("miss", <<>>, 0)
        ELSE LET cached == c[CHOOSE k \in found : \A j \in found : k[1] >= j[1]]
             IN  IF IsStale(ttl, now_us, cached.recv_ts_us) THEN res("stale", <<>>, 0)
                 ELSE res("hit", cached.value, cached.recv_ts_us)

\* one iteration of the object loop of gst_udpjson_meta_transform_ip: what
\* is attached to the object, or why nothing is
LookupObj(c, ttl, now_us, source_id, object_id) ==
    LET key == <<source_id, object_id>>
        res(o, v, ts) == [outcome |-> o, key |-> key, value |-> v, recv_ts_us |-> ts]
    IN  IF object_id = UNTRACKED_OBJECT_ID THEN res("untracked", <<>>, 0)
        ELSE IF ~(key \in DOMAIN c) THEN res("miss", <<>>, 0)
        ELSE LET cached == c[key]
             IN  IF IsStale(ttl, now_us, cached.recv_ts_us) THEN res("stale", <<>>, 0)
                 ELSE res("hit", cached.value, cached.recv_ts_us)

\* an object without user meta
NoMeta == [attached |-> FALSE, dup |-> TRUE, entry |-> <<0, 0>>, value |-> <<>>,
           recv_ts_us |-> 0]

\* mutant: meta->value points into the cache entry
udpjson_attach_obj_meta_Alias(key, value, recv_ts_us) ==
    [attached |-> TRUE, dup |-> FALSE, entry |-> key, value |-> value,
     recv_ts_us |-> recv_ts_us]

\* udpjson_attach_obj_meta: the UdpJsonObjMeta added to the object; value
\* is a duplicate of the string of cache entry key, recv_ts_us a copy
udpjson_attach_obj_meta(key, value, recv_ts_us) ==
    [attached |-> TRUE, dup |-> TRUE, entry |-> key, value |-> value,
     recv_ts_us |-> recv_ts_us]

\* the user meta of an object after its iteration of the object loop
ObjMetaAfter(res) ==
    IF res.outcome = "hit"
    THEN udpjson_attach_obj_meta(res.key, res.value, res.recv_ts_us)
    ELSE NoMeta

\* free()d memory
Freed == <<"freed">>

\* what a consumer reads through meta: its own strings, or the cache
\* entry's when it only points to them
MetaRead(meta, c) ==
    [value |-> IF meta.dup THEN meta.value
               ELSE IF meta.entry \in DOMAIN c THEN c[meta.entry].value
               ELSE Freed,
     recv_ts_us |-> meta.recv_ts_us]

(***************************************************************************)
(* The structured protocol decoder (gstudpjsonmeta_cuav.cpp).  An object   *)
(* node carries its members in f, an array node its elements in items.     *)
(***************************************************************************)
CObj(fields) == [t |-> "object", i |-> 0, s |-> <<>>, f |-> fields]
CArr(items) == [t |-> "array", i |-> 0, s |-> <<>>, items |-> items]

\* "cont", the member holding the array of content items
CUAV_CONT_KEY == "cont"

CUAV_MSG_ID_GUIDANCE == 28945
CUAV_MSG_ID_EO_SYSTEM == 29185
CUAV_MSG_ID_EO_SERVO == 29188

\* g_ascii_strtod on the strings of the model: an optional sign, the digits
\* of the integer part, and a fraction that is dropped (the model's doubles
\* have none); 0 when the string starts with no number
g_ascii_strtod(chars) ==
    LET s == SkipSpaces(chars)
        signed == s # <<>> /\ Head(s) \in {"+", "-"}
        v == StrToULLFrom(IF signed THEN Tail(s) ELSE s, 0)
    IN  IF signed /\ Head(s) = "-" THEN 0 - v ELSE v

\* g_ascii_strtoll(str, NULL, 10): as g_ascii_strtoull, signed, clamped to
\* the range of gint64
g_ascii_strtoll(chars) ==
    LET s == SkipSpaces(chars)
        signed == s # <<>> /\ Head(s) \in {"+", "-"}
        v == StrToULLFrom(IF signed THEN Tail(s) ELSE s, 0)
        half == GUINT64_MOD \div 2
    IN  IF signed /\ Head(s) = "-"
        THEN (IF v > half THEN 0 - half ELSE 0 - v)
        ELSE (IF v >= half THEN half - 1 ELSE v)

\* the member of an object, or NULL
NoNode == [t |-> "NULL", i |-> 0, s |-> <<>>]
json_object_get_member(obj, name) == IF name \in DOMAIN obj THEN obj[name] ELSE NoNode

NoValue == [ok |-> FALSE, out |-> 0]

cuav_parse_double(obj, name) ==
    LET node == json_object_get_member(obj, name)
    IN  IF node.t = "NULL" THEN NoValue
        ELSE IF node.t = "double" THEN [ok |-> TRUE, out |-> node.i]
        ELSE IF node.t = "int" THEN [ok |-> TRUE, out |-> node.i]
        ELSE IF node.t = "string" THEN [ok |-> TRUE, out |-> g_ascii_strtod(node.s)]
        ELSE NoValue

\* the cast to gfloat is exact on the numbers of the model
cuav_parse_float(obj, name) == cuav_parse_double(obj, name)

cuav_parse_uint16(obj, name) ==
    LET node == json_object_get_member(obj, name)
    IN  IF node.t = "NULL" THEN NoValue
        ELSE IF node.t = "int"
        THEN [ok |-> TRUE, out |-> (IF node.i > 0 THEN node.i ELSE 0) % GUINT16_MOD]
        ELSE IF node.t = "string"
        THEN [ok |-> TRUE, out |-> g_ascii_strtoull(node.s) % GUINT16_MOD]
        ELSE NoValue

cuav_parse_uint8(obj, name) ==
    LET val16 == cuav_parse_uint16(obj, name)
    IN  IF val16.ok THEN [ok |-> TRUE, out |-> val16.out % GUINT8_MOD] ELSE NoValue

cuav_parse_int16(obj, name) ==
    LET node == json_object_get_member(obj, name)
        ToInt16(x) == ((x + (GUINT16_MOD \div 2)) % GUINT16_MOD) - (GUINT16_MOD \div 2)
    IN  IF node.t = "NULL" THEN NoValue
        ELSE IF node.t = "int" THEN [ok |-> TRUE, out |-> ToInt16(node.i)]
        ELSE IF node.t = "string" THEN [ok |-> TRUE, out |-> ToInt16(g_ascii_strtoll(node.s))]
        ELSE NoValue

\* guint64 val = json_node_get_int(node): a negative integer is read as a
\* large unsigned one, so val > 0 holds for it
cuav_parse_uint32(obj, name) ==
    LET node == json_object_get_member(obj, name)
    IN  IF node.t = "NULL" THEN NoValue
        ELSE IF node.t = "int"
        THEN [ok |-> TRUE, out |-> (node.i % GUINT64_MOD) % GUINT_MOD]
        ELSE IF node.t = "string"
        THEN [ok |-> TRUE, out |-> g_ascii_strtoull(node.s) % GUINT_MOD]
        ELSE NoValue

\* one cuav_parse_<type>(obj, name, &field) call on a zeroed record: the
\* field keeps 0 when the call returns FALSE
cuav_parse_field(obj, name, type) ==
    LET v == IF type = "uint16" THEN cuav_parse_uint16(obj, name)
             ELSE IF type = "uint8" THEN cuav_parse_uint8(obj, name)
             ELSE IF type = "uint32" THEN cuav_parse_uint32(obj, name)
             ELSE IF type = "int16" THEN cuav_parse_int16(obj, name)
             ELSE IF type = "float" THEN cuav_parse_float(obj, name)
             ELSE cuav_parse_double(obj, name)
    IN  IF v.ok THEN v.out ELSE 0

\* the fields of CUAVCommonHeader and the parser each is read with; msg_sn
\* (a guint32) is written through a guint16 pointer into a zeroed record
CommonHeaderFields ==
    [msg_id |-> "uint16", msg_sn |-> "uint16", msg_type |-> "uint8",
     tx_sys_id |-> "uint16", tx_dev_type |-> "uint16", tx_dev_id |-> "uint16",
     tx_subdev_id |-> "uint16", rx_sys_id |-> "uint16", rx_dev_type |-> "uint16",
     rx_dev_id |-> "uint16", rx_subdev_id |-> "uint16",
     yr |-> "uint16", mo |-> "uint8", dy |-> "uint8", h |-> "uint8",
     min |-> "uint8", sec |-> "uint8", msec |-> "float",
     cont_type |-> "uint8", cont_sum |-> "uint16"]

GuidanceFields ==
    [yr |-> "uint16", mo |-> "uint8", dy |-> "uint8", h |-> "uint8",
     min |-> "uint8", sec |-> "uint8", msec |-> "float",
     tar_id |-> "uint32", tar_category |-> "uint16", guid_stat |-> "uint8",
     ecef_x |-> "double", ecef_y |-> "double", ecef_z |-> "double",
     ecef_vx |-> "double", ecef_vy |-> "double", ecef_vz |-> "double",
     h_dvi_pct |-> "float", v_dvi_pct |-> "float",
     enu_r |-> "double", enu_a |-> "double", enu_e |-> "double",
     enu_v |-> "double", enu_h |-> "double",
     lon |-> "double", lat |-> "double", alt |-> "double"]

EOSystemFields ==
    [sv_stat |-> "uint8", sv_err |-> "uint16", st_mode_h |-> "uint8",
     st_mode_v |-> "uint8", st_loc_h |-> "float", st_loc_v |-> "float",
     pt_stat |-> "uint8", pt_err |-> "uint16", pt_focal |-> "float",
     pt_focus |-> "uint16", pt_fov_h |-> "float", pt_fov_v |-> "float",
     ir_stat |-> "uint8", ir_err |-> "uint16", ir_focal |-> "float",
     ir_focus |-> "uint16", ir_fov_h |-> "float", ir_fov_v |-> "float",
     dm_stat |-> "uint8", dm_err |-> "uint16", dm_dev |-> "uint8",
     trk_dev |-> "uint8", pt_trk_link |-> "uint8", ir_trk_link |-> "uint8",
     trk_str |-> "uint8", trk_mod |-> "uint8", det_trk |-> "uint8",
     trk_stat |-> "uint8", pt_zoom |-> "uint8", ir_zoom |-> "uint8",
     pt_focus_mode |-> "uint8", ir_focus_mode |-> "uint8"]

ServoControlFields ==
    [dev_id |-> "uint8", dev_en |-> "uint8", ctrl_en |-> "uint8",
     mode_h |-> "uint8", mode_v |-> "uint8", speed_en_h |-> "uint8",
     speed_h |-> "uint8", speed_en_v |-> "uint8", speed_v |-> "uint8",
     loc_en_h |-> "uint8", loc_h |-> "float", loc_en_v |-> "uint8",
     loc_v |-> "float", offset_en |-> "uint8",
     offset_h |-> "int16", offset_v |-> "int16"]

\* memset of the record, then one parse call per field
cuav_parse_record(obj, fields) ==
    [n \in DOMAIN fields |-> cuav_parse_field(obj, n, fields[n])]

cuav_parse_common_header(common, recv_ts_us) ==
    [fields |-> cuav_parse_record(common, CommonHeaderFields),
     recv_ts_us |-> recv_ts_us]

cuav_parse_guidance(specific) == cuav_parse_record(specific, GuidanceFields)

cuav_parse_eo_system(specific) == cuav_parse_record(specific, EOSystemFields)

cuav_parse_servo_control(specific) == cuav_parse_record(specific, ServoControlFields)

\* mutant: the payload member of the first element that has one, whatever
\* it is
RECURSIVE cuav_get_specific_from_cont_FirstField(_)
cuav_get_specific_from_cont_FirstField(cont) ==
    IF cont = <<>> THEN NoNode
    ELSE LET node == Head(cont)
             spec_node == IF node.t = "object"
                          THEN json_object_get_member(node.f, CUAV_SPECIFIC_KEY)
                          ELSE NoNode
         IN  IF spec_node.t # "NULL" THEN spec_node
             ELSE cuav_get_specific_from_cont_FirstField(Tail(cont))

\* cuav_get_specific_from_cont: the payload object of the first element
\* that is an object holding an object under the payload key, or NULL
RECURSIVE cuav_get_specific_from_cont(_)
cuav_get_specific_from_cont(cont) ==
    IF cont = <<>> THEN NoNode
    ELSE LET node == Head(cont)
             spec_node == IF node.t = "object"
                          THEN json_object_get_member(node.f, CUAV_SPECIFIC_KEY)
                          ELSE NoNode
         IN  IF spec_node.t = "object" THEN spec_node
             ELSE cuav_get_specific_from_cont(Tail(cont))

\* the parser object: which callbacks are registered, and the debug flag
CallbackKinds == {"guidance_callback", "eo_system_callback", "servo_callback",
                  "raw_callback"}

cuav_parser_new ==
    [null |-> FALSE, guidance_callback |-> FALSE, eo_system_callback |-> FALSE,
     servo_callback |-> FALSE, raw_callback |-> FALSE, debug_enabled |-> FALSE]

NullParser == [cuav_parser_new EXCEPT !.null = TRUE]

\* data == NULL
NullData == Dgram(FALSE, "NULL", NoMembers)

NoDecode == [result |-> FALSE, calls |-> <<>>, typed |-> "none", printed |-> <<>>]

\* mutant: the raw callback is invoked as soon as the header is decoded
cuav_parser_parse_RawEarly(parser, data, len, now_us) ==
    IF parser.null \/ data.root = "NULL" \/ len <= 0 \/ ~data.json
       \/ data.root # "object" THEN NoDecode
    ELSE LET common_node == json_object_get_member(data.m, CUAV_COMMON_KEY)
         IN  IF common_node.t # "object" THEN NoDecode
             ELSE [result |-> FALSE,
                   calls |-> IF parser.raw_callback
                             THEN <<[cb |-> "raw_callback",
                                     header |-> cuav_parse_common_header(common_node.f, now_us),
                                     data |-> <<>>]>>
                             ELSE <<>>,
                   typed |-> "none", printed |-> <<>>]

\* mutant: the raw callback is invoked before the typed callback
cuav_parser_parse_RawFirst(parser, data, len, now_us) ==
    IF parser.null \/ data.root = "NULL" \/ len <= 0 \/ ~data.json
       \/ data.root # "object" THEN NoDecode
    ELSE LET common_node == json_object_get_member(data.m, CUAV_COMMON_KEY)
         IN  IF common_node.t # "object" THEN NoDecode
             ELSE
             LET header == cuav_parse_common_header(common_node.f, now_us)
                 msg_id == header.fields.msg_id
                 spec_node == json_object_get_member(data.m, CUAV_SPECIFIC_KEY)
                 cont_node == json_object_get_member(data.m, CUAV_CONT_KEY)
                 specific ==
                     IF spec_node.t # "NULL"
                     THEN (IF spec_node.t = "object" THEN spec_node ELSE NoNode)
                     ELSE IF cont_node.t = "array"
                     THEN cuav_get_specific_from_cont(cont_node.items)
                     ELSE NoNode
                 call(cb, rec) ==
                     IF parser[cb]
                     THEN <<[cb |-> cb, header |-> header, data |-> rec]>>
                     ELSE <<>>
                 raw == call("raw_callback", specific.f)
                 kind == IF msg_id = CUAV_MSG_ID_GUIDANCE THEN "guidance_callback"
                         ELSE IF msg_id = CUAV_MSG_ID_EO_SYSTEM THEN "eo_system_callback"
                         ELSE IF msg_id = CUAV_MSG_ID_EO_SERVO THEN "servo_callback"
                         ELSE "none"
             IN  IF specific.t # "object" THEN NoDecode
                 ELSE IF kind = "none"
                 THEN [result |-> TRUE, calls |-> raw, typed |-> "none",
                       printed |-> <<>>]
                 ELSE [result |-> TRUE,
                       calls |-> raw \o call(kind, specific.f),
                       typed |-> kind, printed |-> <<>>]

\* mutant: the guidance case has no break and falls through into the
\* EO-system case
cuav_parser_parse_Fallthrough(parser, data, len, now_us) ==
    IF parser.null \/ data.root = "NULL" \/ len <= 0 \/ ~data.json
       \/ data.root # "object" THEN NoDecode
    ELSE LET common_node == json_object_get_member(data.m, CUAV_COMMON_KEY)
         IN  IF common_node.t # "object" THEN NoDecode
             ELSE
             LET header == cuav_parse_common_header(common_node.f, now_us)
                 msg_id == header.fields.msg_id
                 spec_node == json_object_get_member(data.m, CUAV_SPECIFIC_KEY)
                 cont_node == json_object_get_member(data.m, CUAV_CONT_KEY)
                 specific ==
                     IF spec_node.t # "NULL"
                     THEN (IF spec_node.t = "object" THEN spec_node ELSE NoNode)
                     ELSE IF cont_node.t = "array"
                     THEN cuav_get_specific_from_cont(cont_node.items)
                     ELSE NoNode
                 call(cb, rec) ==
                     IF parser[cb]
                     THEN <<[cb |-> cb, header |-> header, data |-> rec]>>
                     ELSE <<>>
                 raw == call("raw_callback", specific.f)
                 eo == call("eo_system_callback", cuav_parse_eo_system(specific.f)) \o raw
             IN  IF specific.t # "object" THEN NoDecode
                 ELSE IF msg_id = CUAV_MSG_ID_GUIDANCE
                 THEN [result |-> TRUE,
                       calls |-> call("guidance_callback",
                                      cuav_parse_guidance(specific.f)) \o raw \o eo,
                       typed |-> "guidance_callback", printed |-> <<>>]
                 ELSE IF msg_id = CUAV_MSG_ID_EO_SYSTEM
                 THEN [result |-> TRUE, calls |-> eo,
                       typed |-> "eo_system_callback", printed |-> <<>>]
                 ELSE IF msg_id = CUAV_MSG_ID_EO_SERVO
                 THEN [result |-> TRUE,
                       calls |-> call("servo_callback",
                                      cuav_parse_servo_control(specific.f)) \o raw,
                       typed |-> "servo_callback", printed |-> <<>>]
                 ELSE [result |-> TRUE, calls |-> raw, typed |-> "none",
                       printed |-> <<>>]

\* mutant: the raw callback is invoked in the default case only
cuav_parser_parse_RawDefaultOnly(parser, data, len, now_us) ==
    IF parser.null \/ data.root = "NULL" \/ len <= 0 \/ ~data.json
       \/ data.root # "object" THEN NoDecode
    ELSE LET common_node == json_object_get_member(data.m, CUAV_COMMON_KEY)
         IN  IF common_node.t # "object" THEN NoDecode
             ELSE
             LET header == cuav_parse_common_header(common_node.f, now_us)
                 msg_id == header.fields.msg_id
                 spec_node == json_object_get_member(data.m, CUAV_SPECIFIC_KEY)
                 cont_node == json_object_get_member(data.m, CUAV_CONT_KEY)
                 specific ==
                     IF spec_node.t # "NULL"
                     THEN (IF spec_node.t = "object" THEN spec_node ELSE NoNode)
                     ELSE IF cont_node.t = "array"
                     THEN cuav_get_specific_from_cont(cont_node.items)
                     ELSE NoNode
                 call(cb, rec) ==
                     IF parser[cb]
                     THEN <<[cb |-> cb, header |-> header, data |-> rec]>>
                     ELSE <<>>
             IN  IF specific.t # "object" THEN NoDecode
                 ELSE IF msg_id = CUAV_MSG_ID_GUIDANCE
                 THEN [result |-> TRUE,
                       calls |-> call("guidance_callback", cuav_parse_guidance(specific.f)),
                       typed |-> "guidance_callback", printed |-> <<>>]
                 ELSE IF msg_id = CUAV_MSG_ID_EO_SYSTEM
                 THEN [result |-> TRUE,
                       calls |-> call("eo_system_callback", cuav_parse_eo_system(specific.f)),
                       typed |-> "eo_system_callback", printed |-> <<>>]
                 ELSE IF msg_id = CUAV_MSG_ID_EO_SERVO
                 THEN [result |-> TRUE,
                       calls |-> call("servo_callback", cuav_parse_servo_control(specific.f)),
                       typed |-> "servo_callback", printed |-> <<>>]
                 ELSE [result |-> TRUE, calls |-> call("raw_callback", specific.f),
                       typed |-> "none", printed |-> <<>>]

\* cuav_parser_parse: what it returns, the callbacks it invokes in order
\* with their arguments, the branch it took, and the target-type codes
\* its debug print looked up
cuav_parser_parse(parser, data, len, now_us) ==
    IF parser.null \/ data.root = "NULL" \/ len <= 0 THEN NoDecode
    ELSE IF ~data.json THEN NoDecode
    ELSE IF data.root # "object" THEN NoDecode
    ELSE LET common_node == json_object_get_member(data.m, CUAV_COMMON_KEY)
         IN  IF common_node.t # "object" THEN NoDecode
             ELSE
             LET header == cuav_parse_common_header(common_node.f, now_us)
                 msg_id == header.fields.msg_id
                 spec_node == json_object_get_member(data.m, CUAV_SPECIFIC_KEY)
                 cont_node == json_object_get_member(data.m, CUAV_CONT_KEY)
                 specific ==
                     IF spec_node.t # "NULL"
                     THEN (IF spec_node.t = "object" THEN spec_node ELSE NoNode)
                     ELSE IF cont_node.t = "array"
                     THEN cuav_get_specific_from_cont(cont_node.items)
                     ELSE NoNode
                 call(cb, rec) ==
                     IF parser[cb]
                     THEN <<[cb |-> cb, header |-> header, data |-> rec]>>
                     ELSE <<>>
                 raw == call("raw_callback", specific.f)
             IN  IF specific.t # "object" THEN NoDecode
                 ELSE IF msg_id = CUAV_MSG_ID_GUIDANCE
                 THEN [result |-> TRUE,
                       calls |-> call("guidance_callback",
                                      cuav_parse_guidance(specific.f)) \o raw,
                       typed |-> "guidance_callback",
                       printed |-> IF parser.debug_enabled
                                   THEN <<cuav_parse_guidance(specific.f).tar_category>>
                                   ELSE <<>>]
                 ELSE IF msg_id = CUAV_MSG_ID_EO_SYSTEM
                 THEN [result |-> TRUE,
                       calls |-> call("eo_system_callback",
                                      cuav_parse_eo_system(specific.f)) \o raw,
                       typed |-> "eo_system_callback", printed |-> <<>>]
                 ELSE IF msg_id = CUAV_MSG_ID_EO_SERVO
                 THEN [result |-> TRUE,
                       calls |-> call("servo_callback",
                                      cuav_parse_servo_control(specific.f)) \o raw,
                       typed |-> "servo_callback", printed |-> <<>>]
                 ELSE [result |-> TRUE, calls |-> raw, typed |-> "none",
                       printed |-> <<>>]

(***************************************************************************)
(* Name lookup.  A label is the sequence of its characters; a Chinese      *)
(* character of the source is written as its pinyin syllable.  A lookup    *)
(* returns either a pointer to a table string or a pointer to the          *)
(* function's static buffer, which it has just formatted.                  *)
(***************************************************************************)
\* "未知"
UnknownLabel == <<"wei", "zhi">>

\* cuav_msg_type_names[]
cuav_msg_type_names ==
    <<(* 控制 *)   <<"kong", "zhi">>,
      (* 回馈 *)   <<"hui", "kui">>,
      (* 查询 *)   <<"cha", "xun">>,
      (* 数据流 *) <<"shu", "ju", "liu">>,
      (* 未知 *)   UnknownLabel,
      (* 未知 *)   UnknownLabel>>

\* cuav_get_msg_type_name: always a table string (index from 0 in the
\* source, from 1 here)
cuav_get_msg_type_name(msg_type) ==
    IF msg_type <= 3 THEN [ptr |-> "table", s |-> cuav_msg_type_names[msg_type + 1]]
    ELSE IF msg_type = 100 THEN [ptr |-> "table", s |-> cuav_msg_type_names[6]]
    ELSE [ptr |-> "table", s |-> cuav_msg_type_names[5]]

\* cuav_msg_id_names[]
cuav_msg_id_names ==
    <<[msg_id |-> 28929, name |-> (* 指令 *) <<"zhi", "ling">>],
      [msg_id |-> 28930, name |-> (* 设备配置参数 *)
                                  <<"she", "bei", "pei", "zhi", "can", "shu">>],
      [msg_id |-> CUAV_MSG_ID_GUIDANCE, name |-> (* 引导信息 *)
                                  <<"yin", "dao", "xin", "xi">>],
      [msg_id |-> 28946, name |-> (* 目标信息1 *) <<"mu", "biao", "xin", "xi", "1">>],
      [msg_id |-> 28947, name |-> (* 目标信息2 *) <<"mu", "biao", "xin", "xi", "2">>],
      [msg_id |-> CUAV_MSG_ID_EO_SYSTEM, name |-> (* 光电系统参数 *)
                                  <<"guang", "dian", "xi", "tong", "can", "shu">>],
      [msg_id |-> 29186, name |-> (* 光电BIT状态 *)
                                  <<"guang", "dian", "B", "I", "T", "zhuang", "tai">>],
      [msg_id |-> 29187, name |-> (* 光电跟踪控制 *)
                                  <<"guang", "dian", "gen", "zong", "kong", "zhi">>],
      [msg_id |-> CUAV_MSG_ID_EO_SERVO, name |-> (* 光电伺服控制 *)
                                  <<"guang", "dian", "si", "fu", "kong", "zhi">>],
      [msg_id |-> 29189, name |-> (* 可见光控制 *) <<"ke", "jian", "guang", "kong", "zhi">>],
      [msg_id |-> 29190, name |-> (* 红外控制 *) <<"hong", "wai", "kong", "zhi">>],
      [msg_id |-> 29191, name |-> (* 光电测距控制 *)
                                  <<"guang", "dian", "ce", "ju", "kong", "zhi">>],
      [msg_id |-> 29192, name |-> (* 手框目标区 *) <<"shou", "kuang", "mu", "biao", "qu">>],
      [msg_id |-> 29193, name |-> (* 光电录像 *) <<"guang", "dian", "lu", "xiang">>],
      [msg_id |-> 29194, name |-> (* 配套控制 *) <<"pei", "tao", "kong", "zhi">>],
      [msg_id |-> 29195, name |-> (* 图像控制 *) <<"tu", "xiang", "kong", "zhi">>]>>

\* %X of one digit, and %04X of a 16-bit value
HexDigit(d) == <<"0", "1", "2", "3", "4", "5", "6", "7", "8", "9",
                 "A", "B", "C", "D", "E", "F">>[d + 1]

Hex04(v) ==
    <<HexDigit((v \div 4096) % 16), HexDigit((v \div 256) % 16),
      HexDigit((v \div 16) % 16), HexDigit(v % 16)>>

\* the first entry of a table, from index i on, whose field key is code;
\* 0 when there is none
RECURSIVE TableFind(_, _, _, _)
TableFind(table, key, code, i) ==
    IF i > Len(table) THEN 0
    ELSE IF table[i][key] = code THEN i
    ELSE TableFind(table, key, code, i + 1)

\* mutant: the fallback string does not tell the code
cuav_get_msg_id_name_NoCode(msg_id) ==
    LET i == TableFind(cuav_msg_id_names, "msg_id", msg_id, 1)
    IN  IF i # 0 THEN [ptr |-> "table", s |-> cuav_msg_id_names[i].name]
        ELSE [ptr |-> "buf", s |-> UnknownLabel \o <<"(", "0", "x", ")">>]

\* cuav_get_msg_id_name: a table string, or the static buffer after
\* snprintf(buf, sizeof(buf), "未知(0x%04X)", msg_id)
cuav_get_msg_id_name(msg_id) ==
    LET i == TableFind(cuav_msg_id_names, "msg_id", msg_id, 1)
    IN  IF i # 0 THEN [ptr |-> "table", s |-> cuav_msg_id_names[i].name]
        ELSE [ptr |-> "buf",
              s |-> UnknownLabel \o <<"(", "0", "x">> \o Hex04(msg_id) \o <<")">>]

\* cuav_target_type_names[]
cuav_target_type_names ==
    <<[target_type |-> 0, name |-> (* 不明 *) <<"bu", "ming">>],
      [target_type |-> 1, name |-> (* 鸟群 *) <<"niao", "qun">>],
      [target_type |-> 2, name |-> (* 空飘物 *) <<"kong", "piao", "wu">>],
      [target_type |-> 3, name |-> (* 飞机 *) <<"fei", "ji">>],
      [target_type |-> 4, name |-> (* 汽车 *) <<"qi", "che">>],
      [target_type |-> 5, name |-> (* 大鸟 *) <<"da", "niao">>],
      [target_type |-> 6, name |-> (* 小鸟 *) <<"xiao", "niao">>],
      [target_type |-> 7, name |-> (* 行人 *) <<"xing", "ren">>],
      [target_type |-> 8, name |-> (* 巡航导弹 *) <<"xun", "hang", "dao", "dan">>],
      [target_type |-> 9, name |-> (* 无人机 *) <<"wu", "ren", "ji">>],
      [target_type |-> 15, name |-> (* 未知 *) UnknownLabel]>>

\* cuav_get_target_type_name: a table string, or the static buffer after
\* snprintf(buf, sizeof(buf), "未知(%u)", target_type)
cuav_get_target_type_name(target_type) ==
    LET i == TableFind(cuav_target_type_names, "target_type", target_type, 1)
    IN  IF i # 0 THEN [ptr |-> "table", s |-> cuav_target_type_names[i].name]
        ELSE [ptr |-> "buf",
              s |-> UnknownLabel \o <<"(">> \o IntToChars(target_type) \o <<")">>]

\* the static buffers of cuav_get_msg_id_name and cuav_get_target_type_name
\* before their first use
NoBufs == [msg_id |-> <<>>, target_type |-> <<>>]

\* a static buffer after a lookup
BufAfter(buf, ret) == IF ret.ptr = "buf" THEN ret.s ELSE buf

\* the codes the helpers are called with: every table code, its
\* neighbours and the ends of the argument's range
MsgTypeCodes == {0, 1, 2, 3, 4, 5, 99, 100, 101, 255}

MsgIdCodes ==
    {cuav_msg_id_names[i].msg_id : i \in 1..Len(cuav_msg_id_names)}
      \cup {0, 1, 28928, 28931, 28944, 29184, 29196, 65535}

TargetTypeCodes == (0..16) \cup {100, 65535}

NoCall == [fn |-> "none", code |-> 0, ptr |-> "none", s |-> <<>>]

(***************************************************************************)
(* The structured protocol's messages on the wire.                         *)
(***************************************************************************)
\* a number in one of its JSON encodings
Enc(enc, v) ==
    IF enc = "string" THEN StrNode(IntToChars(v))
    ELSE IF enc = "double" THEN DoubleNode(v)
    ELSE IntNode(v)

Encodings == {"int", "string", "double"}

\* the values of a header and of a guidance, an EO-system and a servo
\* payload, each within the range of its field
HeaderValues ==
    [msg_sn |-> 70001, msg_type |-> 3, tx_sys_id |-> 11, tx_dev_type |-> 12,
     tx_dev_id |-> 13, tx_subdev_id |-> 14, rx_sys_id |-> 21, rx_dev_type |-> 22,
     rx_dev_id |-> 23, rx_subdev_id |-> 24, yr |-> 2024, mo |-> 5, dy |-> 17,
     h |-> 13, min |-> 45, sec |-> 59, msec |-> 250, cont_type |-> 0,
     cont_sum |-> 1]

GuidanceValues ==
    [yr |-> 2024, mo |-> 5, dy |-> 17, h |-> 13, min |-> 45, sec |-> 58,
     msec |-> 125, tar_id |-> 70000, tar_category |-> 9, guid_stat |-> 1,
     ecef_x |-> 101, ecef_y |-> 0 - 102, ecef_z |-> 103, ecef_vx |-> 4,
     ecef_vy |-> 0 - 5, ecef_vz |-> 6, h_dvi_pct |-> 7, v_dvi_pct |-> 8,
     enu_r |-> 1500, enu_a |-> 45, enu_e |-> 10, enu_v |-> 20, enu_h |-> 120,
     lon |-> 116, lat |-> 39, alt |-> 50]

EOSystemValues == [sv_stat |-> 1, sv_err |-> 300, st_loc_h |-> 180, trk_stat |-> 3]

ServoValues == [dev_id |-> 2, speed_h |-> 200, loc_h |-> 90, offset_h |-> 0 - 7]

\* an object whose members are the values in one encoding
EncObj(values, enc) == [n \in DOMAIN values |-> Enc(enc, values[n])]

\* obj with member name set to node
WithMember(obj, name, node) ==
    [n \in (DOMAIN obj) \cup {name} |-> IF n = name THEN node ELSE obj[n]]

\* a header whose msg_id member is the given node
Header(msg_id_node) ==
    CObj(WithMember(EncObj(HeaderValues, "int"), "msg_id", msg_id_node))

\* a message with a header and a direct payload member
Message(header, payload) ==
    Dgram(TRUE, "object", Obj2(CUAV_COMMON_KEY, header, CUAV_SPECIFIC_KEY, payload))

\* a message with a header and a content array
ContMessage(header, items) ==
    Dgram(TRUE, "object", Obj2(CUAV_COMMON_KEY, header, CUAV_CONT_KEY, CArr(items)))

\* well-formed messages: the three decoded kinds in every encoding of the
\* payload and of msg_id, other identities, and payloads in content arrays
WellFormedMessages ==
    { Message(Header(IntNode(CUAV_MSG_ID_GUIDANCE)), CObj(EncObj(GuidanceValues, enc))) :
        enc \in Encodings }
    \cup { Message(Header(Enc(enc, id)), CObj(EncObj(GuidanceValues, "int"))) :
             enc \in Encodings,
             id \in {CUAV_MSG_ID_GUIDANCE, CUAV_MSG_ID_EO_SYSTEM - 1,
                     CUAV_MSG_ID_GUIDANCE + GUINT16_MOD, 0 - 1} }
    \cup { Message(Header(IntNode(CUAV_MSG_ID_EO_SYSTEM)), CObj(EncObj(EOSystemValues, "int"))),
           Message(Header(IntNode(CUAV_MSG_ID_EO_SERVO)), CObj(EncObj(ServoValues, "int"))),
           Message(CObj(EncObj(HeaderValues, "int")), CObj(EncObj(GuidanceValues, "int"))),
           Message(Header(IntNode(CUAV_MSG_ID_GUIDANCE)),
                   CObj(EncObj([tar_id |-> 0 - 1, tar_category |-> 0 - 1], "int"))),
           ContMessage(Header(IntNode(CUAV_MSG_ID_EO_SERVO)),
                       << IntNode(1), CObj(EncObj(ServoValues, "int")),
                          CObj(Obj2(CUAV_SPECIFIC_KEY, StrNode(<<"x">>), "n", IntNode(1))),
                          CObj(Obj2(CUAV_SPECIFIC_KEY, CObj(EncObj(ServoValues, "int")),
                                    "n", IntNode(2))) >>) }

\* messages cuav_parser_parse has to reject
RejectedMessages ==
    { Dgram(FALSE, "none", NoMembers),
      Dgram(TRUE, "array", NoMembers),
      Dgram(TRUE, "object",
            Obj2(CUAV_SPECIFIC_KEY, CObj(EncObj(GuidanceValues, "int")), "n", IntNode(1))),
      Message(StrNode(<<"h">>), CObj(EncObj(GuidanceValues, "int"))),
      Dgram(TRUE, "object",
            Obj2(CUAV_COMMON_KEY, Header(IntNode(CUAV_MSG_ID_GUIDANCE)), "n", IntNode(1))),
      Message(Header(IntNode(CUAV_MSG_ID_GUIDANCE)), StrNode(<<"p">>)),
      ContMessage(Header(IntNode(CUAV_MSG_ID_GUIDANCE)), <<>>),
      ContMessage(Header(IntNode(CUAV_MSG_ID_GUIDANCE)),
                  << IntNode(1), CObj(EncObj(GuidanceValues, "int")) >>),
      Dgram(TRUE, "object",
            Obj2(CUAV_COMMON_KEY, Header(IntNode(CUAV_MSG_ID_GUIDANCE)),
                 CUAV_CONT_KEY, StrNode(<<"c">>))),
      Dgram(TRUE, "object",
            Obj3(CUAV_COMMON_KEY, Header(IntNode(CUAV_MSG_ID_GUIDANCE)),
                 CUAV_SPECIFIC_KEY, NullNode,
                 CUAV_CONT_KEY,
                 CArr(<< CObj(Obj2(CUAV_SPECIFIC_KEY, CObj(EncObj(GuidanceValues, "int")),
                                   "n", IntNode(1))) >>))) }

GuidanceMessage ==
    Message(Header(IntNode(CUAV_MSG_ID_GUIDANCE)), CObj(EncObj(GuidanceValues, "int")))

\* the argument triples of cuav_parser_parse
DecodeInputs ==
    { [parser_null |-> FALSE, data |-> d, len |-> 1] :
        d \in WellFormedMessages \cup RejectedMessages }
    \cup { [parser_null |-> TRUE, data |-> GuidanceMessage, len |-> 1],
           [parser_null |-> FALSE, data |-> NullData, len |-> 1],
           [parser_null |-> FALSE, data |-> GuidanceMessage, len |-> 0],
           [parser_null |-> FALSE, data |-> GuidanceMessage, len |-> 0 - 1] }

(***************************************************************************)
(* State.                                                                  *)
(***************************************************************************)
Readers == {1, 2}

VARIABLES
    max_cache_size,   \* self->max_cache_size
    cache_ttl_ms,     \* self->cache_ttl_ms
    json_key,         \* self->json_key
    object_id_key,    \* self->object_id_key
    source_id_key,    \* self->source_id_key
    sockfd,           \* self->sockfd
    recv_thread,      \* self->recv_thread: "NULL" or "thread"
    stop_flag,        \* self->stop_flag
    cache,            \* self->cache
    lock_writer,      \* cache_lock is held by the writer
    lock_readers,     \* the readers holding cache_lock
    clock,            \* g_get_monotonic_time()
    el,               \* the element: "stopped", "running", "stopping"
    start_ret,        \* what the last gst_udpjson_meta_start returned
    n_starts,         \* gst_udpjson_meta_start calls so far
    l_pc,             \* where the listener thread is
    buf,              \* the datagram the listener holds
    l_upd,            \* the update udpjson_cache_update is performing
    handed,           \* the decoders the last datagram read was handed to
    r_pc,             \* where each reader is in transform_ip
    r_now,            \* each reader's now_us
    r_src,            \* the source_id of the frame each reader is in
    r_res,            \* the outcome of each reader's last object
    r_meta,           \* the user meta of the last object of each reader's last frame
    hist,             \* the updates performed so far, oldest first
    parser,           \* the CUAVParser object
    d_in,             \* the arguments of the last cuav_parser_parse call
    d_out,            \* what that call returned and the callbacks it invoked
    d_done,           \* cuav_parser_parse has been called
    name_call,        \* the last name lookup: its function, argument and result
    name_bufs         \* the static buffers of the name-lookup functions

vars == <<max_cache_size, cache_ttl_ms, json_key, object_id_key, source_id_key,
          sockfd, recv_thread, stop_flag, cache, lock_writer, lock_readers,
          clock, el, start_ret, n_starts, l_pc, buf, l_upd, handed,
          r_pc, r_now, r_src, r_res, r_meta, hist, parser, d_in, d_out, d_done,
          name_call, name_bufs>>

config == <<max_cache_size, cache_ttl_ms, json_key, object_id_key, source_id_key>>
lifecycle == <<sockfd, recv_thread, stop_flag, el, start_ret, n_starts>>
listener == <<l_pc, buf, l_upd, handed>>
readers == <<r_pc, r_now, r_src, r_res, r_meta>>
lock == <<lock_writer, lock_readers>>
decoder == <<parser, d_in, d_out, d_done>>
names == <<name_call, name_bufs>>
cuav == <<decoder, names>>

NoInput == [parser_null |-> TRUE, data |-> NullData, len |-> 0]

NoPending == [source_id |-> 0, object_id |-> 0, value |-> <<>>, now_us |-> 0]

\* gst_udpjson_meta_init, with the two cache properties as then configured
InitCfg(capacities, ttls) ==
    /\ max_cache_size \in capacities
    /\ cache_ttl_ms \in ttls
    /\ json_key = DEFAULT_JSON_KEY
    /\ object_id_key = DEFAULT_OBJECT_ID_KEY
    /\ source_id_key = DEFAULT_SOURCE_ID_KEY
    /\ sockfd = -1
    /\ recv_thread = "NULL"
    /\ stop_flag = 0
    /\ cache = EmptyCache
    /\ lock_writer = FALSE
    /\ lock_readers = {}
    /\ clock = 0
    /\ el = "stopped"
    /\ start_ret = TRUE
    /\ n_starts = 0
    /\ l_pc = "none"
    /\ buf = NoDgram
    /\ l_upd = NoPending
    /\ handed = {}
    /\ r_pc = [r \in Readers |-> "idle"]
    /\ r_now = [r \in Readers |-> 0]
    /\ r_src = [r \in Readers |-> 0]
    /\ r_res = [r \in Readers |-> NoRes]
    /\ r_meta = [r \in Readers |-> NoMeta]
    /\ hist = <<>>
    /\ parser = cuav_parser_new
    /\ d_in = NoInput
    /\ d_out = NoDecode
    /\ d_done = FALSE
    /\ name_call = NoCall
    /\ name_bufs = NoBufs

\* the monotonic clock advances
Tick ==
    /\ clock + TickUs <= MaxClock
    /\ clock' = clock + TickUs
    /\ UNCHANGED <<cuav, config, lifecycle, cache, lock, listener, readers, hist>>

\* the element's own state, which the decoder never touches
element == <<config, lifecycle, cache, lock, listener, readers, hist>>

(***************************************************************************)
(* Lifecycle: gst_udpjson_meta_start / gst_udpjson_meta_stop, called by    *)
(* the base class on one thread, never overlapping.                        *)
(***************************************************************************)
SetupOutcomes == {"ok", "socket_fails", "bind_fails", "join_fails"}

\* mutant: a failed bind or join leaves the socket open
udpjson_setup_socket_Leak(outcome) ==
    LET fd == IF outcome = "socket_fails" THEN -1 ELSE SOCK_FD
    IN  [ok |-> outcome = "ok", sockfd |-> fd]

\* udpjson_setup_socket: what it returns and what it leaves in self->sockfd
udpjson_setup_socket(outcome) ==
    LET fd == IF outcome = "socket_fails" THEN -1 ELSE SOCK_FD
    IN  IF fd < 0 THEN [ok |-> FALSE, sockfd |-> fd]
        ELSE IF outcome = "bind_fails" THEN [ok |-> FALSE, sockfd |-> -1]
        ELSE IF outcome = "join_fails" THEN [ok |-> FALSE, sockfd |-> -1]
        ELSE [ok |-> TRUE, sockfd |-> fd]

\* udpjson_teardown_socket: what it leaves in self->sockfd
udpjson_teardown_socket(fd) == IF fd >= 0 THEN -1 ELSE fd

\* mutant: start leaves the stop flag as the last stop set it
gst_udpjson_meta_start_KeepsFlag(outcomes, max_starts) ==
    /\ el = "stopped"
    /\ n_starts < max_starts
    /\ n_starts' = n_starts + 1
    /\ \E outcome \in outcomes :
         LET s == udpjson_setup_socket(outcome)
         IN  /\ sockfd' = s.sockfd
             /\ start_ret' = s.ok
             /\ IF s.ok
                THEN /\ recv_thread' = "thread"
                     /\ l_pc' = "loop"
                     /\ el' = "running"
                ELSE UNCHANGED <<recv_thread, l_pc, el>>
    /\ UNCHANGED <<cuav, config, stop_flag, cache, lock, clock, buf, l_upd, handed,
                   readers, hist>>

\* gst_udpjson_meta_start
gst_udpjson_meta_start(outcomes, max_starts) ==
    /\ el = "stopped"
    /\ n_starts < max_starts
    /\ n_starts' = n_starts + 1
    /\ stop_flag' = 0
    /\ \E outcome \in outcomes :
         LET s == udpjson_setup_socket(outcome)
         IN  /\ sockfd' = s.sockfd
             /\ start_ret' = s.ok
             /\ IF s.ok
                THEN /\ recv_thread' = "thread"
                     /\ l_pc' = "loop"
                     /\ el' = "running"
                ELSE UNCHANGED <<recv_thread, l_pc, el>>
    /\ UNCHANGED <<cuav, config, cache, lock, clock, buf, l_upd, handed, readers, hist>>

\* gst_udpjson_meta_stop up to g_thread_join: the flag is set
gst_udpjson_meta_stop_flag ==
    /\ el = "running"
    /\ stop_flag' = 1
    /\ el' = "stopping"
    /\ UNCHANGED <<cuav, config, sockfd, recv_thread, start_ret, n_starts, cache, lock,
                   clock, listener, readers, hist>>

\* mutant: stop does not wait for the thread
JoinReturns_NoWait(thread, pc) == TRUE

\* g_thread_join returns only once the thread function has returned
JoinReturns(thread, pc) == thread = "NULL" \/ pc = "exited"

\* gst_udpjson_meta_stop from g_thread_join to its return
gst_udpjson_meta_stop_join ==
    /\ el = "stopping"
    /\ JoinReturns(recv_thread, l_pc)
    /\ recv_thread' = "NULL"
    /\ sockfd' = udpjson_teardown_socket(sockfd)
    /\ el' = "stopped"
    /\ UNCHANGED <<cuav, config, stop_flag, start_ret, n_starts, cache, lock, clock,
                   listener, readers, hist>>

(***************************************************************************)
(* The listener thread: udpjson_recv_thread.                               *)
(***************************************************************************)
\* the while condition: the stop flag is read; what the last iteration left
\* in the buffer is dead
RecvLoopCheck ==
    /\ l_pc = "loop"
    /\ l_pc' = IF stop_flag # 0 THEN "exited" ELSE "poll"
    /\ buf' = NoDgram
    /\ UNCHANGED <<cuav, config, lifecycle, cache, lock, clock, l_upd, handed,
                   readers, hist>>

\* mutant: after a poll that delivers nothing the thread polls again
\* without reading the stop flag
RecvNothing_Repoll ==
    /\ l_pc = "poll"
    /\ l_pc' = "poll"
    /\ UNCHANGED <<cuav, config, lifecycle, cache, lock, clock, buf, l_upd, handed,
                   readers, hist>>

\* poll times out or fails, or recvfrom returns no data: continue
RecvNothing ==
    /\ l_pc = "poll"
    /\ l_pc' = "loop"
    /\ UNCHANGED <<cuav, config, lifecycle, cache, lock, clock, buf, l_upd, handed,
                   readers, hist>>

\* the decoders udpjson_recv_thread hands a datagram to
RecvHandsTo == {"udpjson_parse_and_cache"}

\* recvfrom returns a datagram of positive length
RecvDatagram(dgrams, max_updates) ==
    /\ l_pc = "poll"
    /\ \E d \in dgrams :
         /\ udpjson_parse_and_cache(d, json_key, object_id_key, source_id_key).write
              => Len(hist) < max_updates
         /\ buf' = d
    /\ l_pc' = "have_dgram"
    /\ handed' = {}
    /\ UNCHANGED <<cuav, config, lifecycle, cache, lock, clock, l_upd, readers, hist>>

\* udpjson_parse_and_cache, and udpjson_cache_update up to writer_lock
ParseAndCache ==
    /\ l_pc = "have_dgram"
    /\ handed' = RecvHandsTo
    /\ LET u == udpjson_parse_and_cache(buf, json_key, object_id_key, source_id_key)
       IN  IF u.write
           THEN /\ Len(hist) < MaxUpdates
                /\ l_upd' = [source_id |-> u.source_id, object_id |-> u.object_id,
                             value |-> u.value, now_us |-> clock]
                /\ l_pc' = "update_wait"
                /\ buf' = buf
           ELSE /\ l_upd' = NoPending
                /\ l_pc' = "loop"
                /\ buf' = buf
    /\ UNCHANGED <<cuav, config, lifecycle, cache, lock, clock, readers, hist>>

\* mutant: the writer does not wait for the readers
WriterCanLock_IgnoresReaders(w, rs) == ~w

\* g_rw_lock_writer_lock returns: no reader and no writer holds the lock
WriterCanLock(w, rs) == ~w /\ rs = {}

CacheWriterLock ==
    /\ l_pc = "update_wait"
    /\ WriterCanLock(lock_writer, lock_readers)
    /\ lock_writer' = TRUE
    /\ l_pc' = "update_cs"
    /\ UNCHANGED <<cuav, config, lifecycle, cache, lock_readers, clock, buf, l_upd, handed,
                   readers, hist>>

\* a datagram the generic extractor has to discard
Malformed(d) ==
    \/ ~d.json
    \/ d.root # "object"
    \/ ~(object_id_key \in DOMAIN d.m)
    \/ ~(json_key \in DOMAIN d.m)

\* a string that is a decimal number
IsNumeric(chars) == chars # <<>> /\ \A k \in 1..Len(chars) : IsDigit(chars[k])

\* a datagram with both fields whose object-id member cannot be coerced to
\* an unsigned integer
UncoercibleId(d) ==
    /\ ~Malformed(d)
    /\ LET n == d.m[object_id_key]
       IN  \/ n.t \in {"bool", "null", "object", "array"}
           \/ n.t = "string" /\ ~IsNumeric(n.s)

\* the record of one update, with whether its datagram was one to cache,
\* and the marking of the entries a clear drops
HistAfter(h, cleared, u, run, during, valid) ==
    [i \in 1..(Len(h) + 1) |->
        IF i <= Len(h)
        THEN [h[i] EXCEPT !.cleared = h[i].cleared \/ cleared]
        ELSE [key |-> <<u.source_id, u.object_id>>, value |-> u.value,
              ts |-> u.now_us, cleared |-> FALSE, run |-> run, during |-> during,
              valid |-> valid]]

\* udpjson_cache_update from the clear to writer_unlock
CacheWriterUpdate ==
    /\ l_pc = "update_cs"
    /\ cache' = CacheUpdateBody(cache, max_cache_size, l_upd.source_id,
                                l_upd.object_id, l_upd.value, l_upd.now_us)
    /\ hist' = HistAfter(hist, CacheUpdateClears(cache, max_cache_size), l_upd,
                         n_starts, el, ~Malformed(buf) /\ ~UncoercibleId(buf))
    /\ lock_writer' = FALSE
    /\ l_pc' = "loop"
    /\ l_upd' = NoPending
    /\ buf' = NoDgram
    /\ UNCHANGED <<cuav, config, lifecycle, lock_readers, clock, handed, readers>>

(***************************************************************************)
(* The read path: gst_udpjson_meta_transform_ip, one call per buffer.      *)
(***************************************************************************)
FrameSources == {0, 1}
FrameObjects == {1, 2, UNTRACKED_OBJECT_ID}

\* entry of transform_ip: now_us is sampled
TransformBegin(r) ==
    /\ r_pc[r] = "idle"
    /\ el = "running"
    /\ r_pc' = [r_pc EXCEPT ![r] = "sampled"]
    /\ r_now' = [r_now EXCEPT ![r] = clock]
    /\ UNCHANGED <<cuav, config, lifecycle, cache, lock, clock, listener, r_src, r_res,
                   r_meta, hist>>

\* g_rw_lock_reader_lock returns: no writer holds the lock
ReaderCanLock(w, rs) == ~w

\* the next frame of the batch: the reader lock is taken
FrameLock(r) ==
    /\ r_pc[r] = "sampled"
    /\ ReaderCanLock(lock_writer, lock_readers)
    /\ lock_readers' = lock_readers \cup {r}
    /\ \E src \in FrameSources : r_src' = [r_src EXCEPT ![r] = src]
    /\ r_res' = [r_res EXCEPT ![r] = NoRes]
    /\ r_meta' = [r_meta EXCEPT ![r] = NoMeta]
    /\ r_pc' = [r_pc EXCEPT ![r] = "locked"]
    /\ UNCHANGED <<cuav, config, lifecycle, cache, lock_writer, clock, listener, r_now, hist>>

\* mutant: a lookup that finds a stale entry removes it
ObjLookup_EvictsStale(r) ==
    /\ r_pc[r] = "locked"
    /\ \E oid \in FrameObjects :
         LET res == LookupObj(cache, cache_ttl_ms, r_now[r], r_src[r], oid)
         IN  /\ r_res' = [r_res EXCEPT ![r] = res]
             /\ r_meta' = [r_meta EXCEPT ![r] = ObjMetaAfter(res)]
             /\ cache' = IF res.outcome = "stale"
                         THEN [k \in (DOMAIN cache) \ {res.key} |-> cache[k]]
                         ELSE cache
    /\ UNCHANGED <<cuav, config, lifecycle, lock, clock, listener, r_pc, r_now,
                   r_src, hist>>

\* the next object of the frame
ObjLookup(r) ==
    /\ r_pc[r] = "locked"
    /\ \E oid \in FrameObjects :
         LET res == LookupObj(cache, cache_ttl_ms, r_now[r], r_src[r], oid)
         IN  /\ r_res' = [r_res EXCEPT ![r] = res]
             /\ r_meta' = [r_meta EXCEPT ![r] = ObjMetaAfter(res)]
    /\ UNCHANGED <<cuav, config, lifecycle, cache, lock, clock, listener, r_pc, r_now,
                   r_src, hist>>

\* mutant: the frame loop goes on without g_rw_lock_reader_unlock
FrameUnlock_KeepsLock(r) ==
    /\ r_pc[r] = "locked"
    /\ r_pc' = [r_pc EXCEPT ![r] = "sampled"]
    /\ r_src' = [r_src EXCEPT ![r] = 0]
    /\ r_res' = [r_res EXCEPT ![r] = NoRes]
    /\ UNCHANGED <<cuav, config, lifecycle, cache, lock, clock, listener, r_now,
                   r_meta, hist>>

\* the end of the frame's object list: the reader lock is released
FrameUnlock(r) ==
    /\ r_pc[r] = "locked"
    /\ lock_readers' = lock_readers \ {r}
    /\ r_pc' = [r_pc EXCEPT ![r] = "sampled"]
    /\ r_src' = [r_src EXCEPT ![r] = 0]
    /\ r_res' = [r_res EXCEPT ![r] = NoRes]
    /\ UNCHANGED <<cuav, config, lifecycle, cache, lock_writer, clock, listener, r_now,
                   r_meta, hist>>

\* the end of the frame list: transform_ip returns
TransformEnd(r) ==
    /\ r_pc[r] = "sampled"
    /\ r_pc' = [r_pc EXCEPT ![r] = "idle"]
    /\ r_now' = [r_now EXCEPT ![r] = 0]
    /\ r_meta' = [r_meta EXCEPT ![r] = NoMeta]
    /\ UNCHANGED <<cuav, config, lifecycle, cache, lock, clock, listener, r_src, r_res, hist>>

(***************************************************************************)
(* The decoder's interface: registration, debug switch and decode.         *)
(***************************************************************************)
\* the record of the last decode call is dropped when the parser changes
ForgetDecode ==
    /\ d_in' = NoInput
    /\ d_out' = NoDecode
    /\ d_done' = FALSE

\* cuav_parser_set_guidance_callback, ..._eo_system_..., ..._servo_control_...
\* and ..._raw_callback: a callback is set, or reset to NULL
cuav_parser_set_callback ==
    /\ \E cb \in CallbackKinds, set \in BOOLEAN :
         parser' = [parser EXCEPT ![cb] = set]
    /\ ForgetDecode
    /\ UNCHANGED <<element, clock, names>>

cuav_parser_set_debug ==
    /\ \E enable \in BOOLEAN : parser' = [parser EXCEPT !.debug_enabled = enable]
    /\ ForgetDecode
    /\ UNCHANGED <<element, clock, names>>

\* the static buffer of cuav_get_target_type_name after the lookups of the
\* codes in printed, in order
RECURSIVE TargetBufAfter(_, _)
TargetBufAfter(b, printed) ==
    IF printed = <<>> THEN b
    ELSE TargetBufAfter(BufAfter(b, cuav_get_target_type_name(Head(printed))),
                        Tail(printed))

\* one call of cuav_parser_parse
CuavDecode(inputs) ==
    /\ \E in \in inputs :
         /\ d_in' = in
         /\ d_out' = cuav_parser_parse(IF in.parser_null THEN NullParser ELSE parser,
                                       in.data, in.len, clock)
    /\ d_done' = TRUE
    /\ name_bufs' = [name_bufs EXCEPT
                       !.target_type = TargetBufAfter(@, d_out'.printed)]
    /\ UNCHANGED <<element, clock, parser, name_call>>

\* one call of cuav_get_msg_type_name
GetMsgTypeName ==
    /\ \E code \in MsgTypeCodes :
         LET ret == cuav_get_msg_type_name(code)
         IN  name_call' = [fn |-> "msg_type", code |-> code, ptr |-> ret.ptr, s |-> ret.s]
    /\ UNCHANGED <<element, clock, decoder, name_bufs>>

\* one call of cuav_get_msg_id_name
GetMsgIdName ==
    /\ \E code \in MsgIdCodes :
         LET ret == cuav_get_msg_id_name(code)
         IN  /\ name_call' = [fn |-> "msg_id", code |-> code, ptr |-> ret.ptr, s |-> ret.s]
             /\ name_bufs' = [name_bufs EXCEPT !.msg_id = BufAfter(@, ret)]
    /\ UNCHANGED <<element, clock, decoder>>

\* one call of cuav_get_target_type_name
GetTargetTypeName ==
    /\ \E code \in TargetTypeCodes :
         LET ret == cuav_get_target_type_name(code)
         IN  /\ name_call' = [fn |-> "target_type", code |-> code, ptr |-> ret.ptr,
                              s |-> ret.s]
             /\ name_bufs' = [name_bufs EXCEPT !.target_type = BufAfter(@, ret)]
    /\ UNCHANGED <<element, clock, decoder>>

\* the values the application gives to the properties, and datagrams
\* that use the other field names
JsonKeyValues == {DEFAULT_JSON_KEY, "data"}
ObjectIdKeyValues == {DEFAULT_OBJECT_ID_KEY, "id"}
SourceIdKeyValues == {DEFAULT_SOURCE_ID_KEY, "src"}

PropDgrams ==
    { Dgram(TRUE, "object",
            Obj3("src", IntNode(1), "id", IntNode(2), "data", StrNode(<<"b">>))) }

\* gst_udpjson_meta_set_property, called by the application's thread for
\* one of the properties the threads of the element read; it takes no lock
\* and does not look at the state of the element
gst_udpjson_meta_set_property ==
    /\ \/ \E v \in JsonKeyValues :
            /\ json_key' = v
            /\ UNCHANGED <<object_id_key, source_id_key, cache_ttl_ms, max_cache_size>>
       \/ \E v \in ObjectIdKeyValues :
            /\ object_id_key' = v
            /\ UNCHANGED <<json_key, source_id_key, cache_ttl_ms, max_cache_size>>
       \/ \E v \in SourceIdKeyValues :
            /\ source_id_key' = v
            /\ UNCHANGED <<json_key, object_id_key, cache_ttl_ms, max_cache_size>>
       \/ \E v \in 0..MaxTtl :
            /\ cache_ttl_ms' = v
            /\ UNCHANGED <<json_key, object_id_key, source_id_key, max_cache_size>>
       \/ \E v \in 0..MaxFewCapacity :
            /\ max_cache_size' = v
            /\ UNCHANGED <<json_key, object_id_key, source_id_key, cache_ttl_ms>>
    /\ UNCHANGED <<cuav, lifecycle, cache, lock, clock, listener, readers, hist>>

(***************************************************************************)
(* Specifications.  Each one is the element from its construction, with    *)
(* the threads its properties are about.                                   *)
(***************************************************************************)
\* the write path: the listener thread alone
Init == InitCfg(0..MaxCapacity, {MaxTtl})

Next ==
    \/ Tick
    \/ gst_udpjson_meta_start({"ok"}, MaxStarts)
    \/ RecvLoopCheck
    \/ RecvNothing
    \/ RecvDatagram(Datagrams, MaxUpdates)
    \/ ParseAndCache
    \/ CacheWriterLock
    \/ CacheWriterUpdate

Spec == Init /\ [][Next]_vars

\* the read path: the listener thread and one pipeline thread
InitRead == InitCfg(0..MaxFewCapacity, 0..MaxTtl)

NextRead ==
    \/ Tick
    \/ gst_udpjson_meta_start({"ok"}, MaxStarts)
    \/ RecvLoopCheck
    \/ RecvNothing
    \/ RecvDatagram(ValidDgrams, MaxFewUpdates)
    \/ ParseAndCache
    \/ CacheWriterLock
    \/ CacheWriterUpdate
    \/ TransformBegin(1)
    \/ FrameLock(1)
    \/ ObjLookup(1)
    \/ FrameUnlock(1)
    \/ TransformEnd(1)

SpecRead == InitRead /\ [][NextRead]_vars

\* the lifecycle: start, stop and restart around the two threads
InitLifecycle == InitCfg(0..MaxFewCapacity, 0..MaxTtl)

NextLifecycle ==
    \/ gst_udpjson_meta_start(SetupOutcomes, MaxStarts)
    \/ gst_udpjson_meta_stop_flag
    \/ gst_udpjson_meta_stop_join
    \/ RecvLoopCheck
    \/ RecvNothing
    \/ RecvDatagram(ValidDgrams, MaxFewUpdates)
    \/ ParseAndCache
    \/ CacheWriterLock
    \/ CacheWriterUpdate
    \/ TransformBegin(1)
    \/ FrameLock(1)
    \/ ObjLookup(1)
    \/ FrameUnlock(1)
    \/ TransformEnd(1)

SpecLifecycle == InitLifecycle /\ [][NextLifecycle]_vars

\* the cache lock: the listener thread and several pipeline threads
InitReaders == InitCfg(0..MaxFewCapacity, {0})

NextReaders ==
    \/ gst_udpjson_meta_start({"ok"}, MaxStarts)
    \/ RecvLoopCheck
    \/ RecvNothing
    \/ RecvDatagram(ValidDgrams, MaxFewUpdates)
    \/ ParseAndCache
    \/ CacheWriterLock
    \/ CacheWriterUpdate
    \/ \E r \in Readers : TransformBegin(r)
    \/ \E r \in Readers : FrameLock(r)
    \/ \E r \in Readers : ObjLookup(r)
    \/ \E r \in Readers : FrameUnlock(r)
    \/ \E r \in Readers : TransformEnd(r)

SpecReaders == InitReaders /\ [][NextReaders]_vars

\* the decoder on its own: registrations, the clock and decode calls
InitCuav == InitCfg({0}, {0})

NextCuav ==
    \/ Tick
    \/ cuav_parser_set_callback
    \/ cuav_parser_set_debug
    \/ CuavDecode(DecodeInputs)

SpecCuav == InitCuav /\ [][NextCuav]_vars

\* the cache lock with threads that keep being scheduled: a thread that
\* holds the lock goes on to its release (the object list of a frame is
\* finite), and a writer waiting in g_rw_lock_writer_lock gets the lock at
\* one of the moments it is free.
LockDgrams == {Envelope(0, 1, <<"a">>), Envelope(0, 2, <<"a">>)}

InitLocks == InitCfg({MaxFewCapacity}, {MaxTtl})

NextLocks ==
    \/ Tick
    \/ gst_udpjson_meta_start({"ok"}, 1)
    \/ RecvLoopCheck
    \/ RecvNothing
    \/ RecvDatagram(LockDgrams, MaxFewUpdates)
    \/ ParseAndCache
    \/ CacheWriterLock
    \/ CacheWriterUpdate
    \/ TransformBegin(1)
    \/ FrameLock(1)
    \/ ObjLookup(1)
    \/ FrameUnlock(1)
    \/ TransformEnd(1)

SpecLocks ==
    /\ InitLocks /\ [][NextLocks]_vars
    /\ SF_vars(CacheWriterLock)
    /\ WF_vars(CacheWriterUpdate)
    /\ WF_vars(FrameUnlock(1))

\* shutdown: the lifecycle with threads that keep being scheduled.  Every
\* step of the listener thread is taken once it can be (poll returns after
\* 100 ms at most); a pipeline thread leaves the object loop and the frame
\* loop of its buffer, both lists being finite.
InitStop == InitCfg({MaxFewCapacity}, {0})

NextStop ==
    \/ gst_udpjson_meta_start({"ok"}, MaxStarts)
    \/ gst_udpjson_meta_stop_flag
    \/ gst_udpjson_meta_stop_join
    \/ RecvLoopCheck
    \/ RecvNothing
    \/ RecvDatagram(ValidDgrams, MaxFewUpdates)
    \/ ParseAndCache
    \/ CacheWriterLock
    \/ CacheWriterUpdate
    \/ TransformBegin(1)
    \/ FrameLock(1)
    \/ ObjLookup(1)
    \/ FrameUnlock(1)
    \/ TransformEnd(1)

SpecStop ==
    /\ InitStop
    /\ [][NextStop]_vars
    /\ WF_vars(RecvLoopCheck)
    /\ WF_vars(RecvNothing)
    /\ WF_vars(ParseAndCache)
    /\ WF_vars(CacheWriterLock)
    /\ WF_vars(CacheWriterUpdate)
    /\ WF_vars(FrameUnlock(1))
    /\ SF_vars(TransformEnd(1))
    /\ WF_vars(gst_udpjson_meta_stop_join)

\* the properties: the application's thread sets them around the listener
\* thread and one pipeline thread
InitProps == InitCfg({MaxFewCapacity}, {MaxTtl})

NextProps ==
    \/ gst_udpjson_meta_set_property
    \/ gst_udpjson_meta_start({"ok"}, 1)
    \/ RecvLoopCheck
    \/ RecvNothing
    \/ RecvDatagram(PropDgrams, 1)
    \/ ParseAndCache
    \/ CacheWriterLock
    \/ CacheWriterUpdate
    \/ TransformBegin(1)
    \/ FrameLock(1)
    \/ ObjLookup(1)
    \/ FrameUnlock(1)
    \/ TransformEnd(1)

SpecProps == InitProps /\ [][NextProps]_vars

\* the name-lookup helpers on their own
NextNames ==
    \/ GetMsgTypeName
    \/ GetMsgIdName
    \/ GetTargetTypeName

SpecNames == InitCuav /\ [][NextNames]_vars

TypeOK ==
    /\ sockfd \in {-1, SOCK_FD}
    /\ stop_flag \in {0, 1}
    /\ el \in {"stopped", "running", "stopping"}
    /\ l_pc \in {"none", "loop", "poll", "have_dgram", "update_wait", "update_cs",
                 "exited"}
    /\ lock_readers \subseteq Readers
    /\ Len(hist) <= MaxUpdates

(***************************************************************************)
(* Helpers of the properties.                                              *)
(***************************************************************************)
\* the keys of the updates performed so far are pairwise distinct
DistinctKeys(h) == \A i, j \in 1..Len(h) : i # j => h[i].key # h[j].key

\* update i is the last one of its key
LastOfKey(h, i) == \A j \in 1..Len(h) : j > i => h[j].key # h[i].key

\* reader r performs the lookup of one object in this step
LookupStep(r) ==
    r_pc[r] = "locked" /\ r_pc'[r] = "locked" /\ r_res'[r] # r_res[r]

\* the listener thread is alive
ListenerAlive == l_pc \in {"loop", "poll", "have_dgram", "update_wait", "update_cs"}

\* the number a JSON member denotes, whatever its encoding
WireValue(node) ==
    IF node.t \in {"int", "double"} THEN node.i
    ELSE IF node.t = "string" THEN g_ascii_strtod(node.s)
    ELSE 0

\* v is a value of a field of the given type
InRange(type, v) ==
    IF type = "uint8" THEN v \in 0..(GUINT8_MOD - 1)
    ELSE IF type = "uint16" THEN v \in 0..(GUINT16_MOD - 1)
    ELSE IF type = "uint32" THEN v \in 0..(GUINT_MOD - 1)
    ELSE IF type = "int16" THEN v \in (0 - (GUINT16_MOD \div 2))..((GUINT16_MOD \div 2) - 1)
    ELSE TRUE

\* the header object of a message, or NULL
HeaderOf(data) ==
    IF data.json /\ data.root = "object"
       /\ json_object_get_member(data.m, CUAV_COMMON_KEY).t = "object"
    THEN json_object_get_member(data.m, CUAV_COMMON_KEY)
    ELSE NoNode

\* the payload object of a message, or NULL: the direct member when there
\* is one, else the first payload object of the content array
PayloadOf(data) ==
    IF ~data.json \/ data.root # "object" THEN NoNode
    ELSE IF CUAV_SPECIFIC_KEY \in DOMAIN data.m
    THEN (IF data.m[CUAV_SPECIFIC_KEY].t = "object" THEN data.m[CUAV_SPECIFIC_KEY]
          ELSE NoNode)
    ELSE IF CUAV_CONT_KEY \in DOMAIN data.m /\ data.m[CUAV_CONT_KEY].t = "array"
    THEN cuav_get_specific_from_cont(data.m[CUAV_CONT_KEY].items)
    ELSE NoNode

\* the last decode call had a parser, data and a positive length
CalledWithData == d_done /\ ~d_in.parser_null /\ d_in.data.root # "NULL" /\ d_in.len > 0

\* ... and its message had a header object and a payload object
DecodedWellFormed ==
    CalledWithData /\ HeaderOf(d_in.data).t = "object" /\ PayloadOf(d_in.data).t = "object"

\* the header of the decoded message has a msg_id member of value id
WireMsgIdIs(id) ==
    /\ "msg_id" \in DOMAIN HeaderOf(d_in.data).f
    /\ WireValue(HeaderOf(d_in.data).f["msg_id"]) = id

\* the typed callback of a message identity
TypedCallbackOf(id) ==
    IF id = CUAV_MSG_ID_GUIDANCE THEN "guidance_callback"
    ELSE IF id = CUAV_MSG_ID_EO_SYSTEM THEN "eo_system_callback"
    ELSE IF id = CUAV_MSG_ID_EO_SERVO THEN "servo_callback"
    ELSE "none"

\* record rec holds the value of every in-range member of obj it has a
\* field for
FieldsMatch(rec, obj, fields) ==
    \A n \in (DOMAIN fields) \cap (DOMAIN obj) :
        InRange(fields[n], WireValue(obj[n])) => rec[n] = WireValue(obj[n])

\* the labels the header and the README give to the message ids
DocMsgIdNames ==
    <<[code |-> 28929, name |-> <<"zhi", "ling">>],                      \* 0x7101 指令
      [code |-> 28930, name |-> <<"she", "bei", "pei", "zhi", "can", "shu">>],
                                                                         \* 0x7102 设备配置参数
      [code |-> 28945, name |-> <<"yin", "dao", "xin", "xi">>],          \* 0x7111 引导信息
      [code |-> 28946, name |-> <<"mu", "biao", "xin", "xi", "1">>],     \* 0x7112 目标信息1
      [code |-> 28947, name |-> <<"mu", "biao", "xin", "xi", "2">>],     \* 0x7113 目标信息2
      [code |-> 29185, name |-> <<"guang", "dian", "xi", "tong", "can", "shu">>],
                                                                         \* 0x7201 光电系统参数
      [code |-> 29186, name |-> <<"guang", "dian", "B", "I", "T", "zhuang", "tai">>],
                                                                         \* 0x7202 光电BIT状态
      [code |-> 29187, name |-> <<"guang", "dian", "gen", "zong", "kong", "zhi">>],
                                                                         \* 0x7203 光电跟踪控制
      [code |-> 29188, name |-> <<"guang", "dian", "si", "fu", "kong", "zhi">>],
                                                                         \* 0x7204 光电伺服控制
      [code |-> 29189, name |-> <<"ke", "jian", "guang", "kong", "zhi">>],
                                                                         \* 0x7205 可见光控制
      [code |-> 29190, name |-> <<"hong", "wai", "kong", "zhi">>],       \* 0x7206 红外控制
      [code |-> 29191, name |-> <<"guang", "dian", "ce", "ju", "kong", "zhi">>],
                                                                         \* 0x7207 光电测距控制
      [code |-> 29192, name |-> <<"shou", "kuang", "mu", "biao", "qu">>],
                                                                         \* 0x7208 手框目标区
      [code |-> 29193, name |-> <<"guang", "dian", "lu", "xiang">>],     \* 0x7209 光电录像
      [code |-> 29194, name |-> <<"pei", "tao", "kong", "zhi">>],        \* 0x720A 配套控制
      [code |-> 29195, name |-> <<"tu", "xiang", "kong", "zhi">>]>>      \* 0x720B 图像控制

\* the labels the README gives to the target types; 5, 6 and 15 have the
\* label of their enumerator (BIG_BIRD, SMALL_BIRD, UNKNOWN2)
DocTargetTypeNames ==
    <<[code |-> 0, name |-> <<"bu", "ming">>],                  \* 不明
      [code |-> 1, name |-> <<"niao", "qun">>],                 \* 鸟群
      [code |-> 2, name |-> <<"kong", "piao", "wu">>],          \* 空飘物
      [code |-> 3, name |-> <<"fei", "ji">>],                   \* 飞机
      [code |-> 4, name |-> <<"qi", "che">>],                   \* 汽车
      [code |-> 5, name |-> <<"da", "niao">>],                  \* 大鸟
      [code |-> 6, name |-> <<"xiao", "niao">>],                \* 小鸟
      [code |-> 7, name |-> <<"xing", "ren">>],                 \* 行人
      [code |-> 8, name |-> <<"xun", "hang", "dao", "dan">>],   \* 巡航导弹
      [code |-> 9, name |-> <<"wu", "ren", "ji">>],             \* 无人机
      [code |-> 15, name |-> <<"wei", "zhi">>]>>                \* 未知

\* the labels the header and the README give to the message types
DocMsgTypeNames ==
    <<[code |-> 0, name |-> <<"kong", "zhi">>],                 \* 控制
      [code |-> 1, name |-> <<"hui", "kui">>],                  \* 回馈
      [code |-> 2, name |-> <<"cha", "xun">>],                  \* 查询
      [code |-> 3, name |-> <<"shu", "ju", "liu">>],            \* 数据流
      [code |-> 100, name |-> <<"chu", "shi", "hua">>]>>        \* 初始化

\* the codes of a documentation table
DocCodes(doc) == {doc[i].code : i \in 1..Len(doc)}

\* the label a documentation table gives to one of its codes
DocName(doc, code) == doc[CHOOSE i \in 1..Len(doc) : doc[i].code = code].name

\* the number a sequence of hexadecimal digits denotes
RECURSIVE HexValue(_)
HexValue(chars) ==
    IF chars = <<>> THEN 0
    ELSE LET c == chars[Len(chars)]
             d == CHOOSE k \in 0..15 : HexDigit(k) = c
         IN  16 * HexValue(SubSeq(chars, 1, Len(chars) - 1)) + d

\* the characters of str between its prefix and its suffix, when it has
\* both; <<>> otherwise
Between(str, prefix, suffix) ==
    LET n == Len(str)
        p == Len(prefix)
        q == Len(suffix)
    IN  IF n > p + q /\ SubSeq(str, 1, p) = prefix /\ SubSeq(str, n - q + 1, n) = suffix
        THEN SubSeq(str, p + 1, n - q)
        ELSE <<>>

\* str is "未知(0x", four hexadecimal digits that denote code, and ")"
IsUnknownHex(str, code) ==
    LET digits == Between(str, UnknownLabel \o <<"(", "0", "x">>, <<")">>)
    IN  /\ Len(digits) = 4
        /\ \A i \in 1..4 : \E k \in 0..15 : HexDigit(k) = digits[i]
        /\ HexValue(digits) = code

\* str is "未知(", decimal digits that denote code, and ")"
IsUnknownDec(str, code) ==
    LET digits == Between(str, UnknownLabel \o <<"(">>, <<")">>)
    IN  /\ digits # <<>>
        /\ IsNumeric(digits)
        /\ g_ascii_strtoull(digits) = code

\* the cache after the updates of h whose datagram was one to cache, in
\* order, from cache c
RECURSIVE Replay(_, _, _)
Replay(c, cap, h) ==
    IF h = <<>> THEN c
    ELSE Replay(IF Head(h).valid
                THEN CacheUpdateBody(c, cap, Head(h).key[1], Head(h).key[2],
                                     Head(h).value, Head(h).ts)
                ELSE c,
                cap, Tail(h))

(***************************************************************************)
(* Properties.                                                             *)
(***************************************************************************)

\* C1: with a capacity > 0 the cache never holds more than capacity entries.
C1_SizeAtMostCapacity ==
    max_cache_size > 0 => Cardinality(DOMAIN cache) <= max_cache_size

\* C1 witness: the cache is full again after an overflow cleared it.
C1_Witness ==
    /\ max_cache_size > 0
    /\ Cardinality(DOMAIN cache) = max_cache_size
    /\ \E i \in 1..Len(hist) : hist[i].cleared

\* C2: with capacity N > 0, after N + 1 updates with pairwise distinct keys
\* the first N keys are absent and the cache holds exactly the entry of
\* update N + 1.
C2_OverflowClearsAll ==
    (max_cache_size > 0 /\ Len(hist) = max_cache_size + 1 /\ DistinctKeys(hist))
      => /\ DOMAIN cache = {hist[Len(hist)].key}
         /\ cache[hist[Len(hist)].key] =
              [value |-> hist[Len(hist)].value, recv_ts_us |-> hist[Len(hist)].ts]
         /\ \A i \in 1..max_cache_size : ~(hist[i].key \in DOMAIN cache)

\* C2 witness: capacity 2 and three updates with distinct keys.
C2_Witness ==
    max_cache_size = 2 /\ Len(hist) = 3 /\ DistinctKeys(hist)

SeenEntry(r) == cache[r_res[r].key]

\* a reader inside its critical section has just looked at an entry, under
\* a TTL
SawEntry(r) ==
    /\ r_pc[r] = "locked"
    /\ cache_ttl_ms > 0
    /\ r_res[r].outcome \in {"hit", "stale"}

C5_ReadersExcludeWriter ==
    /\ l_pc = "update_cs" => \A r \in Readers : r_pc[r] # "locked"
    /\ lock_writer <=> l_pc = "update_cs"
    /\ lock_readers = {r \in Readers : r_pc[r] = "locked"}

\* C5 witness: two readers are inside together while the writer waits.
C5_Witness ==
    /\ \A r \in Readers : r_pc[r] = "locked"
    /\ l_pc = "update_wait"

\* C6: once stop has returned the listener thread is gone, no update is
\* left half done, and the cache does not change until a later start.
C6_NoWriteAfterStop ==
    [][ /\ el' = "stopped" => (~ListenerAlive' /\ l_upd' = NoPending /\ ~lock_writer')
        /\ el = "stopped" => cache' = cache ]_vars

\* C6 witness: stop has returned after an update that was written while
\* stop was waiting for the thread.
C6_Witness ==
    /\ el = "stopped"
    /\ \E i \in 1..Len(hist) : hist[i].during = "stopping"

\* C7: every datagram the listener reads is handed to the generic extractor
\* and to the structured protocol decoder.
C7_HandedToBoth ==
    (l_pc \in {"loop", "update_wait", "update_cs"} /\ buf # NoDgram)
      => handed = {"udpjson_parse_and_cache", "cuav_parser_parse"}

\* C8: when start fails no listener thread exists, the element is not
\* started and no socket is left open.
C8_FailedStartLeavesNothing ==
    ~start_ret => /\ sockfd < 0
                  /\ recv_thread = "NULL"
                  /\ ~ListenerAlive
                  /\ el = "stopped"

\* C8 witness: a start fails after an earlier run of the element.
C8_Witness ==
    ~start_ret /\ n_starts = 2 /\ Len(hist) > 0

\* C9: while the element runs, the cache holds no entry written before the
\* latest start.
C9_NoResidue ==
    el = "running" =>
      \A i \in 1..Len(hist) :
        (hist[i].run < n_starts /\ LastOfKey(hist, i) /\ ~hist[i].cleared)
          => ~(hist[i].key \in DOMAIN cache)

\* C10: a datagram that is not JSON, has no object root, or lacks the
\* object-id or the value field leaves the cache as it was and starts no
\* update; the listener goes on with its loop.
C10_MalformedLeavesCache ==
    [][ /\ (l_pc = "have_dgram" /\ Malformed(buf) /\ l_pc' # l_pc)
           => (l_pc' = "loop" /\ cache' = cache /\ l_upd' = NoPending)
        /\ cache' # cache => ~Malformed(buf) ]_vars

\* C10 witness: the listener is back at its loop after discarding a
\* malformed datagram, with the cache still holding its entries.
C10_Witness ==
    /\ l_pc = "loop"
    /\ buf # NoDgram
    /\ Malformed(buf)
    /\ cache # EmptyCache

\* C11: a datagram whose object-id member cannot be coerced to an unsigned
\* integer is discarded: it starts no update and the cache stays as it was,
\* so nothing is written under object id 0.
C11_UncoercibleIdDiscarded ==
    [][ /\ (l_pc = "have_dgram" /\ UncoercibleId(buf) /\ l_pc' # l_pc)
           => (l_pc' = "loop" /\ cache' = cache /\ l_upd' = NoPending)
        /\ cache' # cache => ~UncoercibleId(buf) ]_vars

\* C12: decoding a message whose header msg_id is 0x7111 and that has a
\* payload block invokes the registered guidance callback with a record
\* whose every field equals the payload's, and the registered raw callback
\* with the same header record.
C12_GuidanceDecoded ==
    (DecodedWellFormed /\ WireMsgIdIs(CUAV_MSG_ID_GUIDANCE))
      => /\ parser.guidance_callback =>
              \E i \in 1..Len(d_out.calls) :
                /\ d_out.calls[i].cb = "guidance_callback"
                /\ FieldsMatch(d_out.calls[i].data, PayloadOf(d_in.data).f, GuidanceFields)
         /\ (parser.guidance_callback /\ parser.raw_callback) =>
              \E i, j \in 1..Len(d_out.calls) :
                /\ d_out.calls[i].cb = "guidance_callback"
                /\ d_out.calls[j].cb = "raw_callback"
                /\ d_out.calls[j].header = d_out.calls[i].header

\* C13: decoding a well-formed message whose msg_id is none of 0x7111,
\* 0x7201, 0x7204, or is missing, invokes no typed callback, invokes the raw
\* callback if registered, and returns success.
C13_UnrecognizedRawOnly ==
    (DecodedWellFormed /\ ~WireMsgIdIs(CUAV_MSG_ID_GUIDANCE)
       /\ ~WireMsgIdIs(CUAV_MSG_ID_EO_SYSTEM) /\ ~WireMsgIdIs(CUAV_MSG_ID_EO_SERVO))
      => /\ d_out.result
         /\ \A i \in 1..Len(d_out.calls) : d_out.calls[i].cb = "raw_callback"
         /\ Len(d_out.calls) = IF parser.raw_callback THEN 1 ELSE 0

\* a decode call that has to fail: no parser, no data, a length that is
\* not positive, no JSON, no object root, no header object or no payload object
Rejected(in) ==
    \/ in.parser_null
    \/ in.data.root = "NULL"
    \/ in.len <= 0
    \/ HeaderOf(in.data).t # "object"
    \/ PayloadOf(in.data).t # "object"

\* C14: cuav_parser_parse returns failure and invokes no callback when the
\* input is not JSON, the root is no object, the header member is absent or
\* no object, no payload object is found, or parser or data is null or len
\* is not positive.
C14_RejectedNoCallback ==
    (d_done /\ Rejected(d_in)) => (~d_out.result /\ d_out.calls = <<>>)

\* C14 witness: a message with a header and no payload object was decoded
\* with the raw callback registered.
C14_Witness ==
    /\ CalledWithData
    /\ parser.raw_callback
    /\ HeaderOf(d_in.data).t = "object"
    /\ PayloadOf(d_in.data).t # "object"

\* C15: a header or payload field decodes to the same value whether it is
\* supplied as a JSON string, integer or double; in particular the message
\* is dispatched by the value of msg_id whatever its encoding.
C15_EncodingsAgree ==
    DecodedWellFormed
      => /\ \A i \in 1..Len(d_out.calls) :
              /\ FieldsMatch(d_out.calls[i].header.fields, HeaderOf(d_in.data).f,
                             CommonHeaderFields)
              /\ d_out.calls[i].cb = "guidance_callback" =>
                   FieldsMatch(d_out.calls[i].data, PayloadOf(d_in.data).f, GuidanceFields)
         /\ \A id \in {CUAV_MSG_ID_GUIDANCE, CUAV_MSG_ID_EO_SYSTEM, CUAV_MSG_ID_EO_SERVO} :
              WireMsgIdIs(id) => d_out.typed = TypedCallbackOf(id)

\* C16: in a decode call that takes the branch of msg_id 0x7111, 0x7201 or
\* 0x7204 with the matching typed callback and the raw callback registered,
\* the typed callback is invoked first and the raw callback after it.
C16_TypedBeforeRaw ==
    (d_done /\ d_out.typed # "none" /\ parser[d_out.typed] /\ parser.raw_callback)
      => /\ Len(d_out.calls) = 2
         /\ d_out.calls[1].cb = d_out.typed
         /\ d_out.calls[2].cb = "raw_callback"

\* C16 witness: a servo-control message found in a content array was
\* decoded with both callbacks registered.
C16_Witness ==
    /\ d_done
    /\ d_out.typed = "servo_callback"
    /\ CUAV_CONT_KEY \in DOMAIN d_in.data.m
    /\ parser.servo_callback /\ parser.raw_callback
    /\ Len(d_out.calls) = 2

\* C17: cuav_get_msg_id_name returns the documented label for each of the
\* 16 message ids of the table and cuav_get_target_type_name for each of the
\* codes 0..9 and 15; for any other 16-bit code the string returned is
\* "unknown(code)", from which the code can be read back, so that two
\* different codes never give the same string.
C17_NamesOfCodes ==
    /\ name_call.fn = "msg_id" =>
         IF name_call.code \in DocCodes(DocMsgIdNames)
         THEN name_call.s = DocName(DocMsgIdNames, name_call.code)
         ELSE IsUnknownHex(name_call.s, name_call.code)
    /\ name_call.fn = "target_type" =>
         IF name_call.code \in DocCodes(DocTargetTypeNames)
         THEN name_call.s = DocName(DocTargetTypeNames, name_call.code)
         ELSE IsUnknownDec(name_call.s, name_call.code)

\* C17 witness: both helpers have been called with a code outside their
\* table, the last one being cuav_get_msg_id_name(0xFFFF).
C17_Witness ==
    /\ name_call.fn = "msg_id"
    /\ name_call.code = 65535
    /\ name_call.ptr = "buf"
    /\ name_bufs.target_type # <<>>

\* C18: cuav_get_msg_type_name returns the documented label for each of the
\* codes 0, 1, 2, 3 and 100, and for any other code a string "unknown(code)"
\* from which the code can be read back; so the label of 100 is the label
\* of no other code.
C18_MsgTypeNames ==
    name_call.fn = "msg_type" =>
        IF name_call.code \in DocCodes(DocMsgTypeNames)
        THEN name_call.s = DocName(DocMsgTypeNames, name_call.code)
        ELSE IsUnknownDec(name_call.s, name_call.code)

\* C19: the cache holds what the datagrams that are neither malformed nor
\* without a usable object id put into it, as if the other datagrams had
\* never been received.
C19_FailuresIsolated == cache = Replay(EmptyCache, max_cache_size, hist)

\* C20: no field the listener thread or a pipeline thread reads (the three
\* field names, max_cache_size, cache_ttl_ms) is written while the listener
\* thread is alive or a pipeline thread is inside transform_ip.
C20_ConfigNotWrittenWhileRead ==
    [][ config' # config =>
          (~ListenerAlive /\ \A r \in Readers : r_pc[r] = "idle") ]_vars

\* C21: the last update of a key, when no capacity-triggered clear followed
\* it, is the entry the cache holds for the key: its value with its own
\* receipt timestamp.
C21_LastUpdateWhole ==
    \A i \in 1..Len(hist) :
      (LastOfKey(hist, i) /\ ~hist[i].cleared)
        => /\ hist[i].key \in DOMAIN cache
           /\ cache[hist[i].key] = [value |-> hist[i].value, recv_ts_us |-> hist[i].ts]

\* C21 witness: a key was updated twice, with different values at
\* different times, and nothing was cleared.
C21_Witness ==
    /\ Len(hist) = 2
    /\ hist[1].key = hist[2].key
    /\ hist[1].value # hist[2].value
    /\ hist[1].ts < hist[2].ts
    /\ ~hist[1].cleared
    /\ cache[hist[2].key].recv_ts_us = hist[2].ts

\* C22: an update that clears nothing leaves the entry of every other
\* (source_id, object_id) pair as it was, and a lookup of a pair returns
\* only a value, with its timestamp, that an update wrote under that pair.
C22_PairIdentity ==
    [][ /\ (cache' # cache /\ ~CacheUpdateClears(cache, max_cache_size)) =>
             \A k \in (DOMAIN cache) \cup (DOMAIN cache') :
               k # <<l_upd.source_id, l_upd.object_id>>
                 => (k \in DOMAIN cache /\ k \in DOMAIN cache' /\ cache'[k] = cache[k])
        /\ \A r \in Readers :
             (LookupStep(r) /\ r_res'[r].outcome = "hit") =>
               /\ r_res'[r].key[1] = r_src[r]
               /\ \E i \in 1..Len(hist) :
                    /\ hist[i].key = r_res'[r].key
                    /\ hist[i].value = r_res'[r].value
                    /\ hist[i].ts = r_res'[r].recv_ts_us ]_vars

\* C22 witness: the cache holds different values for the same object id
\* under two sources, and a reader got the one of its frame's source.
C22_Witness ==
    \E r \in Readers :
      /\ r_res[r].outcome = "hit"
      /\ r_res[r].key = <<1, 1>>
      /\ <<0, 1>> \in DOMAIN cache
      /\ cache[<<0, 1>>].value # r_res[r].value

\* C23: with cache_ttl_ms = 0 the lookup of a key the cache holds returns
\* the stored value and receipt timestamp, however old the entry is.
C23_ZeroTtlNeverStale ==
    \A r \in Readers :
      ( /\ r_pc[r] = "locked"
        /\ cache_ttl_ms = 0
        /\ r_res[r].outcome \notin {"none", "untracked"}
        /\ r_res[r].key \in DOMAIN cache )
        => /\ r_res[r].outcome = "hit"
           /\ r_res[r].value = cache[r_res[r].key].value
           /\ r_res[r].recv_ts_us = cache[r_res[r].key].recv_ts_us

\* C23 witness: with cache_ttl_ms = 0 a reader got an entry that was 2 ms old.
C23_Witness ==
    \E r \in Readers :
      /\ r_pc[r] = "locked"
      /\ cache_ttl_ms = 0
      /\ r_res[r].outcome = "hit"
      /\ r_now[r] >= r_res[r].recv_ts_us + 2000

\* the keys written so far
KeysWritten == {hist[i].key : i \in 1..Len(hist)}

\* C24: with max_cache_size = 0 no update removes anything: the cache
\* holds one entry for every distinct key ever written.
C24_UnboundedKeepsAll ==
    max_cache_size = 0
      => /\ DOMAIN cache = KeysWritten
         /\ \A i \in 1..Len(hist) : ~hist[i].cleared

\* C24 witness: capacity 0, and updates of three distinct keys.
C24_Witness ==
    /\ max_cache_size = 0
    /\ Len(hist) = 3
    /\ Cardinality(KeysWritten) = 3
    /\ Cardinality(DOMAIN cache) = 3

\* C25: no step of a pipeline thread changes the cache, whatever its
\* lookups find: the cache changes only in the listener's update, so a
\* stale entry stays until an update overwrites or clears it.
C25_LookupLeavesCache ==
    [][ /\ readers' # readers => cache' = cache
        /\ cache' # cache => (l_pc = "update_cs" /\ l_pc' = "loop") ]_vars

\* C25 witness: a reader found an entry stale, and the entry is still there.
C25_Witness ==
    \E r \in Readers :
      /\ r_pc[r] = "locked"
      /\ r_res[r].outcome = "stale"
      /\ r_res[r].key \in DOMAIN cache

\* C26: once the stop flag is set while the listener thread is alive, the
\* thread eventually leaves its loop, and stop's join returns.
C26_StopFlagEndsLoop ==
    (stop_flag = 1 /\ ListenerAlive) ~> (~ListenerAlive /\ el = "stopped")

\* C26 witness: the stop flag is set while the listener thread is in an
\* iteration that delivered a datagram and waits for the writer lock, which
\* a pipeline thread holds.
C26_Witness ==
    /\ stop_flag = 1
    /\ l_pc = "update_wait"
    /\ lock_readers # {}

\* a member that denotes an unsigned number: a non-negative integer or
\* double, or a decimal string
Coercible(node) ==
    \/ node.t \in {"int", "double"} /\ node.i >= 0
    \/ node.t = "string" /\ IsNumeric(node.s)

\* the source identity of a datagram: its source-id member when that is a
\* number, 0 otherwise
SourceOf(d) ==
    IF source_id_key \in DOMAIN d.m /\ Coercible(d.m[source_id_key])
    THEN WireValue(d.m[source_id_key])
    ELSE 0

ContItems ==
    IF ~d_in.data.json \/ d_in.data.root # "object" THEN <<>>
    ELSE IF CUAV_CONT_KEY \in DOMAIN d_in.data.m /\ d_in.data.m[CUAV_CONT_KEY].t = "array"
    THEN d_in.data.m[CUAV_CONT_KEY].items
    ELSE <<>>

\* the decoded message has a direct payload member
HasDirectPayload ==
    d_in.data.json /\ d_in.data.root = "object" /\ CUAV_SPECIFIC_KEY \in DOMAIN d_in.data.m

\* the content items that contain the payload field, and those that hold a
\* payload object
ItemsWithField ==
    {i \in DOMAIN ContItems :
       ContItems[i].t = "object" /\ CUAV_SPECIFIC_KEY \in DOMAIN ContItems[i].f}

ItemsWithObject ==
    {i \in ItemsWithField : ContItems[i].f[CUAV_SPECIFIC_KEY].t = "object"}

First(S) == CHOOSE i \in S : \A j \in S : i <= j

\* every payload the callbacks of the last decode were handed is node
HandedPayload(node) ==
    \A i \in DOMAIN d_out.calls :
       d_out.calls[i].cb = "raw_callback" => node.t = "object" /\ d_out.calls[i].data = node.f

\* C28 as stated: the payload block is the direct member when there is one
\* and else the payload member of the first content item that contains the
\* field, and decode succeeds whenever there is a header object and a
\* payload object, direct or in a content item.
C28_AnyPayloadDecodes ==
    CalledWithData =>
      /\ (HeaderOf(d_in.data).t = "object"
           /\ (\/ HasDirectPayload /\ d_in.data.m[CUAV_SPECIFIC_KEY].t = "object"
               \/ ItemsWithObject # {}))
          => d_out.result
      /\ d_out.result =>
           IF HasDirectPayload THEN HandedPayload(d_in.data.m[CUAV_SPECIFIC_KEY])
           ELSE /\ ItemsWithField # {}
                /\ HandedPayload(ContItems[First(ItemsWithField)].f[CUAV_SPECIFIC_KEY])

\* C28: the payload block is the direct payload member when the root has
\* one; otherwise it is the payload of the first content item, in array
\* order, that holds a payload object.  Decode succeeds exactly when there
\* is a header object and either the direct payload member is an object or
\* there is no direct payload member and a content item holds a payload
\* object.
C28_PayloadLocation ==
    CalledWithData =>
      /\ d_out.result <=>
           /\ HeaderOf(d_in.data).t = "object"
           /\ IF HasDirectPayload THEN d_in.data.m[CUAV_SPECIFIC_KEY].t = "object"
              ELSE ItemsWithObject # {}
      /\ d_out.result =>
           IF HasDirectPayload THEN HandedPayload(d_in.data.m[CUAV_SPECIFIC_KEY])
           ELSE HandedPayload(ContItems[First(ItemsWithObject)].f[CUAV_SPECIFIC_KEY])

\* C28 witness: a decode handed the raw callback the payload of a content
\* item that comes after an item whose payload member is no object.
C28_Witness ==
    /\ CalledWithData /\ d_out.result /\ ~HasDirectPayload
    /\ \E i \in DOMAIN d_out.calls : d_out.calls[i].cb = "raw_callback"
    /\ First(ItemsWithField) < First(ItemsWithObject)

\* C29: what a consumer reads through the user meta a lookup attached does
\* not change once the reader lock is released, whatever is done to the
\* cache afterwards.
C29_HandedValueIsCopy ==
    [][ \A r \in Readers :
          ( /\ r_pc[r] = "sampled" /\ r_pc'[r] = "sampled"
            /\ r_meta[r].attached )
            => /\ r_meta'[r].attached
               /\ MetaRead(r_meta'[r], cache') = MetaRead(r_meta[r], cache) ]_vars

\* C29 witness: a reader has left the critical section with a value
\* attached, and the cache entry it came from has been overwritten or
\* cleared since.
C29_Witness ==
    \E r \in Readers :
      /\ r_pc[r] = "sampled"
      /\ r_meta[r].attached
      /\ \/ r_meta[r].entry \notin DOMAIN cache
         \/ cache[r_meta[r].entry].value # r_meta[r].value

\* C30: an update clears the cache only when its key is new and the cache
\* is at capacity; an update of a key already present while the size
\* equals the capacity replaces that entry and keeps every other one.
C30_PresentKeyNeverClears ==
    [][ (l_pc = "update_cs" /\ l_pc' = "loop") =>
          LET key == <<l_upd.source_id, l_upd.object_id>>
          IN  /\ (key \in DOMAIN cache /\ g_hash_table_size(cache) = max_cache_size)
                   => /\ DOMAIN cache' = DOMAIN cache
                      /\ \A k \in (DOMAIN cache) \ {key} : cache'[k] = cache[k]
              /\ (\E k \in (DOMAIN cache) \ {key} : k \notin DOMAIN cache')
                   => /\ key \notin DOMAIN cache
                      /\ g_hash_table_size(cache) + 1 > max_cache_size ]_vars

\* the invocations of typed callbacks, and of the raw callback, in the last
\* decode call
TypedCalls == {i \in DOMAIN d_out.calls : d_out.calls[i].cb # "raw_callback"}
RawCalls == {i \in DOMAIN d_out.calls : d_out.calls[i].cb = "raw_callback"}

\* C31: a decode call invokes at most one typed callback, and it is the one
\* of the msg_id of the header the callback is handed: guidance for 0x7111,
\* EO-system for 0x7201, servo-control for 0x7204; a typed callback
\* registered for another kind is not invoked.
C31_OnlyMatchingTyped ==
    d_done =>
      /\ Cardinality(TypedCalls) <= 1
      /\ \A i \in TypedCalls :
           d_out.calls[i].cb = TypedCallbackOf(d_out.calls[i].header.fields.msg_id)

\* C31 witness: an EO-system message was decoded with all three typed
\* callbacks registered, and the EO-system callback was invoked.
C31_Witness ==
    /\ d_done
    /\ parser.guidance_callback /\ parser.eo_system_callback /\ parser.servo_callback
    /\ \E i \in TypedCalls : d_out.calls[i].cb = "eo_system_callback"

\* the parser with every combination of registered callbacks
Registrations ==
    { [cuav_parser_new EXCEPT !.guidance_callback = g, !.eo_system_callback = e,
                              !.servo_callback = sv, !.raw_callback = rw] :
        g \in BOOLEAN, e \in BOOLEAN, sv \in BOOLEAN, rw \in BOOLEAN }

\* C32: a registered raw callback is invoked exactly once in a decode call
\* that returns success, whatever the msg_id and whether or not a typed
\* callback was invoked, and never in a call that returns failure; what
\* the call returns is the same under every registration of callbacks.
C32_RawOncePerSuccess ==
    d_done =>
      /\ Cardinality(RawCalls) =
           IF d_out.result /\ ~d_in.parser_null /\ parser.raw_callback THEN 1 ELSE 0
      /\ ~d_in.parser_null =>
           \A p \in Registrations :
             cuav_parser_parse(p, d_in.data, d_in.len, clock).result = d_out.result

\* C32 witness: a guidance message was decoded with the guidance and the
\* raw callback registered; both were invoked.
C32_Witness ==
    /\ d_done /\ d_out.result
    /\ parser.raw_callback
    /\ TypedCalls # {}
    /\ Cardinality(RawCalls) = 1

\* C33: with a TTL set, a lookup that finds an entry written after the
\* reader sampled its clock returns the entry's value: the entry is not
\* taken for stale because it is newer than the sample.
C33_NewerEntryNotStale ==
    \A r \in Readers :
      ( /\ r_pc[r] = "locked"
        /\ cache_ttl_ms > 0
        /\ r_res[r].outcome \notin {"none", "untracked"}
        /\ r_res[r].key \in DOMAIN cache
        /\ cache[r_res[r].key].recv_ts_us > r_now[r] )
        => /\ r_res[r].outcome = "hit"
           /\ r_res[r].value = cache[r_res[r].key].value

\* C34: the msg_sn of the decoded header equals the wire msg_sn for every
\* wire integer within the 32 bits of the field, values above 65535
\* included.
C34_MsgSnWhole ==
    ( /\ DecodedWellFormed
      /\ "msg_sn" \in DOMAIN HeaderOf(d_in.data).f
      /\ HeaderOf(d_in.data).f["msg_sn"].t = "int"
      /\ HeaderOf(d_in.data).f["msg_sn"].i \in 0..(GUINT_MOD - 1) )
      => \A i \in DOMAIN d_out.calls :
           d_out.calls[i].header.fields.msg_sn = HeaderOf(d_in.data).f["msg_sn"].i

\* C35: a typed callback is invoked only for a message whose wire msg_id
\* is exactly 0x7111, 0x7201 or 0x7204; a wire integer outside 0..65535 is
\* never dispatched to a typed callback.
C35_ExactWireMsgId ==
    (DecodedWellFormed /\ TypedCalls # {})
      => \E id \in {CUAV_MSG_ID_GUIDANCE, CUAV_MSG_ID_EO_SYSTEM, CUAV_MSG_ID_EO_SERVO} :
           WireMsgIdIs(id)

\* the fields of rec that are unsigned and whose member of obj is a
\* negative JSON integer hold 0
NegativeIsZero(rec, obj, fields) ==
    \A n \in (DOMAIN fields) \cap (DOMAIN obj) :
       (fields[n] \in {"uint8", "uint16", "uint32"} /\ obj[n].t = "int" /\ obj[n].i < 0)
         => rec[n] = 0

\* C36: a negative JSON integer supplied for an unsigned header or payload
\* field decodes to 0, whether the field has 8, 16 or 32 bits.
C36_NegativeDecodesZero ==
    DecodedWellFormed =>
      \A i \in DOMAIN d_out.calls :
        /\ NegativeIsZero(d_out.calls[i].header.fields, HeaderOf(d_in.data).f,
                          CommonHeaderFields)
        /\ d_out.calls[i].cb = "guidance_callback" =>
             NegativeIsZero(d_out.calls[i].data, PayloadOf(d_in.data).f, GuidanceFields)

\* the cache key udpjson_parse_and_cache stores datagram d under
KeyOf(d) ==
    LET upd == udpjson_parse_and_cache(d, json_key, object_id_key, source_id_key)
    IN  <<upd.source_id, upd.object_id>>

\* C37: two datagrams with the same object id and different source-id
\* values, whatever unsigned 64-bit values these are, are stored under
\* different cache keys.
C37_SourcesKeptApart ==
    (l_pc = "update_wait" /\ ~Malformed(buf) /\ ~UncoercibleId(buf)) =>
      \A d \in ValidDgrams :
        ( /\ KeyOf(d)[2] = l_upd.object_id
          /\ SourceOf(d) # SourceOf(buf)
          /\ SourceOf(d) < GUINT64_MOD /\ SourceOf(buf) < GUINT64_MOD )
          => KeyOf(d) # <<l_upd.source_id, l_upd.object_id>>

\* C38: the writer lock is held only inside udpjson_cache_update and is
\* always released; a reader lock is held only inside the object loop of a
\* frame and is always released, whatever the outcomes of the frame's
\* objects; the listener waiting for the writer lock gets it.
C38_LocksReleased ==
    /\ [](lock_writer <=> (l_pc = "update_cs"))
    /\ [](\A r \in Readers : (r \in lock_readers) <=> (r_pc[r] = "locked"))
    /\ lock_writer ~> ~lock_writer
    /\ \A r \in Readers : (r \in lock_readers) ~> (r \notin lock_readers)
    /\ (l_pc = "update_wait") ~> (l_pc = "update_cs")

\* C38 witness: the listener waits for the writer lock while a reader
\* holds the lock over an object whose entry it found stale.
C38_Witness ==
    /\ l_pc = "update_wait"
    /\ 1 \in lock_readers
    /\ r_res[1].outcome = "stale"

\* C39: from a successful start to the next stop the stop flag is 0 and
\* the listener thread is in its loop, also when the start follows a stop:
\* the thread leaves the loop only once stop has set the flag.
C39_RestartedListenerRuns ==
    /\ [](el = "running" => (stop_flag = 0 /\ ListenerAlive))
    /\ [][ (ListenerAlive /\ ~ListenerAlive') => (stop_flag = 1 /\ el = "stopping") ]_vars

\* C39 witness: after a stop and a second start the listener has written
\* the cache and is still running.
C39_Witness ==
    /\ n_starts = 2
    /\ el = "running" /\ ListenerAlive
    /\ \E i \in 1..Len(hist) : hist[i].run = 2

\* C40: the string cuav_get_msg_id_name or cuav_get_target_type_name
\* returned for a code outside its table reads the same after a later call
\* of the same helper with another code outside the table.
C40_ReturnedNameKeeps ==
    [][ \A fn \in {"msg_id", "target_type"} :
          (name_call.fn = fn /\ name_call.ptr = "buf")
            => name_bufs'[fn] = name_call.s ]_vars

====
